---------------------------- MODULE Spec2Model ----------------------------
(***************************************************************************)
(* A model of catscan's lint core: the rule dispatch of                   *)
(* catscan/lint/base.py (gating by settings, inline noqa suppression,     *)
(* printing, the returned findings and lint()'s result), the scope        *)
(* context of catscan/lint/context.py, the flow graph of                  *)
(* catscan/utils/program.py and the walk of get_checkable_objects.        *)
(*                                                                         *)
(* Text is a sequence of one-character strings, so that the regular       *)
(* expression NOQA_RE and Python's substring test are computed on the     *)
(* characters, as the code computes them.                                 *)
(***************************************************************************)
EXTENDS Integers, Sequences, FiniteSets, TLC

None == "None"

(***************************************************************************)
(* Bounds of the model.                                                    *)
(***************************************************************************)
\* findings the rule functions produce in one dispatch run, all rules together
MaxFindings == 1

(***************************************************************************)
(* Characters and the code pattern CODE_PATT = [A-Z]{2,4}\d{3,4}.          *)
(***************************************************************************)
UpperChars ==
    {"A","B","C","D","E","F","G","H","I","J","K","L","M",
     "N","O","P","Q","R","S","T","U","V","W","X","Y","Z"}
DigitChars == {"0","1","2","3","4","5","6","7","8","9"}
SpaceChars == {" ", "\t"}

CodeMinLetters == 2
CodeMaxLetters == 4
CodeMinDigits == 3
CodeMaxDigits == 4

\* the positions just after a match of CODE_PATT that starts at position i of s
CODE_PATT_ends(s, i) ==
    { i + nl + nd : <<nl, nd>> \in
        { q \in (CodeMinLetters..CodeMaxLetters) \X (CodeMinDigits..CodeMaxDigits) :
            /\ i + q[1] + q[2] - 1 <= Len(s)
            /\ \A k \in i..(i + q[1] - 1) : s[k] \in UpperChars
            /\ \A k \in (i + q[1])..(i + q[1] + q[2] - 1) : s[k] \in DigitChars } }

\* re.fullmatch(CODE_PATT, code)
CODE_PATT_fullmatch(code) == (Len(code) + 1) \in CODE_PATT_ends(code, 1)

\* the positions just after a run of at least min whitespace characters at i
WsEnds(s, i, min) ==
    { j \in (i + min)..(Len(s) + 1) : \A k \in i..(j - 1) : s[k] \in SpaceChars }

\* the literal lit stands at position i of s
LitAt(s, i, lit) ==
    /\ i + Len(lit) - 1 <= Len(s)
    /\ \A k \in 1..Len(lit) : s[i + k - 1] = lit[k]

\* CodeListToEnd altered: the pattern without its (\s+CODE_PATT)* part
CodeListToEndSingle(s, i) == (Len(s) + 1) \in CODE_PATT_ends(s, i)

\* CODE_PATT(\s+CODE_PATT)*$ from position i: a list of codes up to the end
RECURSIVE CodeListToEnd(_, _)
CodeListToEnd(s, i) ==
    \E e \in CODE_PATT_ends(s, i) :
        \/ e = Len(s) + 1
        \/ \E w \in WsEnds(s, e, 1) : CodeListToEnd(s, w)

Slashes == <<"/", "/">>
NoqaWord == <<"n", "o", "q", "a", ":">>

\* NOQA_RE.search(error_line): the matches <<start, start of group 1>>
\* of //\s*noqa:\s*(CODE_PATT(\s+CODE_PATT)*)$ ; the empty set is Python's None
NOQA_RE_search(error_line) ==
    { m \in (1..Len(error_line)) \X (1..Len(error_line)) :
        /\ LitAt(error_line, m[1], Slashes)
        /\ \E j \in WsEnds(error_line, m[1] + Len(Slashes), 0) :
              /\ LitAt(error_line, j, NoqaWord)
              /\ m[2] \in WsEnds(error_line, j + Len(NoqaWord), 0)
        /\ CodeListToEnd(error_line, m[2]) }

\* Python's `code in text` on strings
IsSubstring(code, text) ==
    \E i \in 1..(Len(text) - Len(code) + 1) :
        SubSeq(text, i, i + Len(code) - 1) = code


_is_noqa(error_line, code) ==
    IF NOQA_RE_search(error_line) = {}
    THEN FALSE
    ELSE IsSubstring(code, error_line)


(***************************************************************************)
(* Settings: catscan/settings.py.                                          *)
(***************************************************************************)
ERROR == 0
WARNING == 1
INFO == 2
FINE == 3
CheckLevel == {ERROR, WARNING, INFO, FINE}
LevelName(l) ==
    CASE l = ERROR -> "ERROR" [] l = WARNING -> "WARNING" [] l = INFO -> "INFO"
      [] OTHER -> "FINE"

\* CheckSettings(enabled, level), and the entry of a code the settings do not
\* name (checks.get(code) is None)
CheckSettings == [is_none : {FALSE}, enabled : BOOLEAN, level : CheckLevel]
NoCheckSettings == [is_none |-> TRUE, enabled |-> TRUE, level |-> ERROR]

(***************************************************************************)
(* The rule codes, and the source text the findings point into.  The       *)
(* first code is a prefix of the second; the third is registered by no     *)
(* rule and occurs in markers only.                                        *)
(***************************************************************************)
AB123 == <<"A", "B", "1", "2", "3">>
AB1234 == <<"A", "B", "1", "2", "3", "4">>
CD456 == <<"C", "D", "4", "5", "6">>
Sp == <<" ">>
Stmt == <<"x", ";">>
Marker == Slashes \o Sp \o NoqaWord \o Sp

\* the implementation source of the routine, split at "\n"
ImplSource ==
    << Stmt,
       Stmt \o Marker \o AB123,
       Stmt \o Slashes \o NoqaWord \o AB1234,
       Stmt \o Marker \o CD456 \o Sp \o Sp \o AB123,
       AB123 \o Stmt \o Marker \o CD456,
       Stmt \o Marker \o AB123 \o Sp \o Stmt,
       Stmt \o Marker \o AB1234 \o <<"\t">> \o AB123,
       Stmt \o Marker \o CD456 >>
\* the lines of the file on disk, as linecache reads them
FileLines == << Stmt \o Marker \o AB1234 >>

\* a line number that is None
NoLine == 0

\* Location: source (the routine's source or None), line (the line in it),
\* file_line (the line in the file)
Locations ==
    { [source |-> "impl", line |-> n, file_line |-> n] : n \in 1..Len(ImplSource) }
      \cup { [source |-> None, line |-> NoLine, file_line |-> n] :
               n \in 1..(Len(FileLines) + 1) }
      \cup { [source |-> None, line |-> NoLine, file_line |-> NoLine] }

\* the violating line, or None when it cannot be found
NoErrorLine == [is_none |-> TRUE, text |-> <<>>]
ErrorLine(text) == [is_none |-> FALSE, text |-> text]

\* linecache.getline(file, n).strip("\n"): the empty string past the end
linecache_getline(n) == IF n \in 1..Len(FileLines) THEN FileLines[n] ELSE <<>>

\* Location.error_line
error_line(loc) ==
    IF loc.source = None /\ loc.file_line = NoLine THEN NoErrorLine
    ELSE IF loc.source # None /\ loc.line # NoLine THEN ErrorLine(ImplSource[loc.line])
    ELSE IF loc.file_line # NoLine THEN ErrorLine(linecache_getline(loc.file_line))
    ELSE NoErrorLine

(***************************************************************************)
(* The registry __REGISTERED_CHECKS__ (node shape -> rules, in insertion   *)
(* order) and the objects get_checkable_objects yields for a routine whose *)
(* body is the call statement f(a + b): the statement, the statement once  *)
(* more as its own expression, and the argument.                           *)
(***************************************************************************)
REGISTERED_CHECKS ==
    << [typ |-> "Statement", code |-> AB123],
       [typ |-> "Expression", code |-> AB1234] >>
RuleCodes == { REGISTERED_CHECKS[i].code : i \in 1..Len(REGISTERED_CHECKS) }

Yielded == << "call", "call", "binop" >>
\* isinstance(obj, typ)
isinstance(obj, typ) ==
    \/ obj = "call" /\ typ \in {"Statement", "Expression"}
    \/ obj = "binop" /\ typ = "Expression"

\* lint() has not returned
NoResult == -1

(***************************************************************************)
(* The parsed program.  A statement is a record: k is its kind, subs its   *)
(* statement lists (the arms of an IF or CASE, the ELSE arm last when      *)
(* has_else; the body of a loop; the statement of a label), exprs its own  *)
(* expressions (conditions, the assigned value, the parameter values of a  *)
(* call statement) and out says which parameters of a call are output      *)
(* parameters.  An expression is a record: k, args and out.  A node's      *)
(* identity, Python's id(obj), is its path in the program.                 *)
(***************************************************************************)
\* str.lower() on the characters the names are written with
UpperLetters ==
    <<"A","B","C","D","E","F","G","H","I","J","K","L","M",
      "N","O","P","Q","R","S","T","U","V","W","X","Y","Z">>
LowerLetters ==
    <<"a","b","c","d","e","f","g","h","i","j","k","l","m",
      "n","o","p","q","r","s","t","u","v","w","x","y","z">>
lower_char(c) ==
    IF \E i \in 1..26 : UpperLetters[i] = c
    THEN LowerLetters[CHOOSE i \in 1..26 : UpperLetters[i] = c]
    ELSE c
lower(s) == [ i \in 1..Len(s) |-> lower_char(s[i]) ]
\* streq altered: the spellings are compared
streq_exact(s1, s2) == s1 = s2
streq(s1, s2) == lower(s1) = lower(s2)

\* the SimpleVariable name
Variable(name) == [k |-> "var", args |-> <<>>, out |-> <<>>, name |-> name]
Var == Variable(<<"a">>)
Bin(l, r) == [k |-> "bin", args |-> <<l, r>>, out |-> <<>>, name |-> <<>>]
\* the FunctionCall name(args), out[i] telling the output parameters (=>)
FunctionCall(name, args, out) ==
    [k |-> "call", args |-> args, out |-> out, name |-> name]

Leaf(kind, exprs) ==
    [k |-> kind, subs |-> <<>>, has_else |-> FALSE, exprs |-> exprs, out |-> <<>>,
     name |-> <<>>]
\* name := a + a
AssignTo(name) == [Leaf("assign", <<Bin(Var, Var)>>) EXCEPT !.name = name]
\* x := a + a
Assign == AssignTo(<<"x">>)
\* the call statement name(args)
CallWith(name, args, out) ==
    [k |-> "call", subs |-> <<>>, has_else |-> FALSE, exprs |-> args, out |-> out,
     name |-> name]
\* the call statement f(a)
CallStat == CallWith(<<"f">>, <<Var>>, <<FALSE>>)
Return == Leaf("return", <<>>)
Exit == Leaf("exit", <<>>)
Continue == Leaf("continue", <<>>)
\* a statement with sub-statement lists
Compound(kind, subs, has_else, exprs) ==
    [k |-> kind, subs |-> subs, has_else |-> has_else, exprs |-> exprs, out |-> <<>>,
     name |-> <<>>]
\* IF c THEN a END_IF
If(a) == Compound("if", <<a>>, FALSE, <<Var>>)
\* IF c THEN a ELSE b END_IF
IfElse(a, b) == Compound("if", <<a, b>>, TRUE, <<Var>>)
\* IF c THEN a ELSIF d THEN b END_IF
IfElsif(a, b) == Compound("if", <<a, b>>, FALSE, <<Var, Var>>)
\* CASE e OF 1: a 2: b END_CASE
Case(a, b) == Compound("case", <<a, b>>, FALSE, <<Var>>)
\* CASE e OF 1: a ELSE b END_CASE
CaseElse(a, b) == Compound("case", <<a, b>>, TRUE, <<Var>>)
\* WHILE c DO a END_WHILE
While(a) == Compound("while", <<a>>, FALSE, <<Var>>)
\* FOR i := a TO a DO a END_FOR, i being the control variable
ForOver(name, a) ==
    [Compound("for", <<a>>, FALSE, <<Var, Var>>) EXCEPT !.name = name]
For(a) == ForOver(<<"i">>, a)
Jump == Leaf("jump", <<>>)
\* label: a
Labeled(a) == Compound("labeled", <<a>>, FALSE, <<>>)

IsLoop(s) == s.k \in {"while", "repeat", "for"}

(***************************************************************************)
(* The flow graph: catscan/utils/program.py.  Nodes live in a sequence     *)
(* and are named by their index; an edge <<a, b>> puts b in a.next and a   *)
(* in b.prev.  A node's stat and statements hold entries [id, s].          *)
(***************************************************************************)
\* a ProgramNode that is None
NoNode == 0
NoStat == <<>>
Entry(id, s) == [id |-> id, s |-> s]

EmptyGraph == [nodes |-> <<>>, edges |-> {}]

\* ProgramNode(label=..., stat=...)
ProgramNode(g, label, stat) ==
    [g EXCEPT !.nodes = Append(@, [label |-> label, stat |-> stat, statements |-> <<>>])]
Last(g) == Len(g.nodes)

\* node.add_next(other)
add_next(g, node, other) == [g EXCEPT !.edges = @ \cup {<<node, other>>}]
\* node.add_next(label=..., stat=...), the new node being Last of the result
add_next_new(g, node, label, stat) ==
    add_next(ProgramNode(g, label, stat), node, Len(g.nodes) + 1)
\* node.statements.append(obj)
statements_append(g, node, entry) ==
    [g EXCEPT !.nodes[node].statements = Append(@, entry)]

next_of(g, node) == { e[2] : e \in { d \in g.edges : d[1] = node } }
prev_of(g, node) == { e[1] : e \in { d \in g.edges : d[2] = node } }

Built(g, end) == [g |-> g, end |-> end, err |-> ""]
Raised(g, what) == [g |-> g, end |-> NoNode, err |-> what]

\* the join altered: no end is joined
JoinNever(r, join) == r
\* `if _end is not None: _end.add_next(join)`
JoinEnd(r, join) ==
    IF r.err = "" /\ r.end # NoNode
    THEN [r EXCEPT !.g = add_next(r.g, r.end, join)]
    ELSE r

\* the label of arm a of an IF or CASE statement, and whether its node
\* carries the statement as its stat
ArmLabel(s, a) ==
    IF s.has_else /\ a = Len(s.subs) THEN "else"
    ELSE IF s.k = "case" THEN "case_matches"
    ELSE IF a = 1 THEN "if" ELSE "elsif"
ArmStat(s, id, a) ==
    IF s.has_else /\ a = Len(s.subs) THEN NoStat
    ELSE IF s.k = "case" \/ a = 1 THEN <<Entry(id, s)>>
    ELSE NoStat

RECURSIVE GraphOfStatement(_, _, _, _, _, _)
RECURSIVE GraphOfList(_, _, _, _, _, _, _)
RECURSIVE GraphOfArms(_, _, _, _, _, _, _, _)

\* _get_program_graph for a StatementList (or None): the statements from the
\* i-th on, each appended to the end the one before it returned
GraphOfList(stmts, i, id, g, end, exit_destination, continue_destination) ==
    IF i > Len(stmts) THEN Built(g, end)
    ELSE LET r == GraphOfStatement(stmts[i], id \o <<i>>, g, end,
                                   exit_destination, continue_destination)
         IN  IF r.err # "" THEN r
             ELSE GraphOfList(stmts, i + 1, id, r.g, r.end,
                              exit_destination, continue_destination)

\* the arms of an IF or CASE statement from the a-th on: each arm starts in
\* a new successor of the node `from`, and its end, when reachable, joins
GraphOfArms(s, a, id, g, from, join, exit_destination, continue_destination) ==
    IF a > Len(s.subs) THEN Built(g, join)
    ELSE LET g1 == add_next_new(g, from, ArmLabel(s, a), ArmStat(s, id, a))
             r == JoinEnd(GraphOfList(s.subs[a], 1, id \o <<a>>, g1, Last(g1),
                                      exit_destination, continue_destination), join)
         IN  IF r.err # "" THEN r
             ELSE GraphOfArms(s, a + 1, id, r.g, from, join,
                              exit_destination, continue_destination)

\* _get_program_graph for one statement
GraphOfStatement(s, id, g, end, exit_destination, continue_destination) ==
    IF end = NoNode THEN Built(g, end)
    ELSE IF s.k = "if" THEN
        LET g1 == ProgramNode(g, "if_end", NoStat)
            if_end == Last(g1)
            r == GraphOfArms(s, 1, id, g1, end, if_end,
                             exit_destination, continue_destination)
        IN  IF r.err # "" \/ s.has_else THEN r
            ELSE LET g2 == add_next_new(r.g, end, "_else", NoStat)
                 IN  Built(add_next(g2, Last(g2), if_end), if_end)
    ELSE IF s.k = "case" THEN
        LET g1 == add_next_new(g, end, "CASE", <<Entry(id, s)>>)
            case_node == Last(g1)
            g2 == ProgramNode(g1, "case_end", NoStat)
        IN  GraphOfArms(s, 1, id, g2, case_node, Last(g2),
                        exit_destination, continue_destination)
    ELSE IF IsLoop(s) THEN
        LET g1 == add_next_new(g, end, "loop", <<Entry(id, s)>>)
            loop == Last(g1)
            g2 == add_next_new(g1, loop, "loop_start", NoStat)
            loop_start == Last(g2)
            g3 == ProgramNode(g2, "loop_end", NoStat)
            loop_end == Last(g3)
            r == JoinEnd(GraphOfList(s.subs[1], 1, id \o <<1>>, g3, loop_start,
                                     loop_end, loop_start), loop_end)
        IN  IF r.err # "" THEN r
            ELSE LET g4 == add_next_new(r.g, loop, "_else", NoStat)
                 IN  Built(add_next(g4, Last(g4), loop_end), loop_end)
    ELSE IF s.k = "labeled" THEN
        LET g1 == add_next_new(g, end, "label", <<Entry(id, s)>>)
        IN  IF s.subs[1] # <<>>
            THEN Built(statements_append(g1, Last(g1),
                                         Entry(id \o <<1, 1>>, s.subs[1][1])), Last(g1))
            ELSE Built(g1, Last(g1))
    ELSE IF s.k = "exit" THEN
        IF exit_destination = NoNode THEN Raised(g, "ValueError")
        ELSE Built(add_next(statements_append(g, end, Entry(id, s)),
                            end, exit_destination), NoNode)
    ELSE IF s.k = "continue" THEN
        IF continue_destination = NoNode THEN Raised(g, "ValueError")
        ELSE Built(add_next(statements_append(g, end, Entry(id, s)),
                            end, continue_destination), NoNode)
    ELSE IF s.k = "return" THEN
        Built(statements_append(g, end, Entry(id, s)), NoNode)
    ELSE IF s.k = "jump" THEN Raised(g, "NotImplementedError")
    ELSE Built(statements_append(g, end, Entry(id, s)), end)

\* get_program_graph(obj) for a routine whose statements have the ids
\* id \o <<1>>, id \o <<2>>, ...: the graph, its start node being node 1
get_program_graph(body, id) ==
    LET g == ProgramNode(EmptyGraph, "start", NoStat)
    IN  GraphOfList(body, 1, id, g, Last(g), NoNode, NoNode)

\* get_subexpressions(expr): what it yields, in order, each with its id; the
\* sub-expressions of the expression have the ids base \o <<1>>, ...
RECURSIVE get_subexpressions(_, _, _)
RECURSIVE SubexpressionsOfParameters(_, _, _)
get_subexpressions(expr, id, base) ==
    << [id |-> id, e |-> expr] >> \o
    (IF expr.k = "bin"
     THEN get_subexpressions(expr.args[1], base \o <<1>>, base \o <<1>>)
          \o get_subexpressions(expr.args[2], base \o <<2>>, base \o <<2>>)
     ELSE IF expr.k = "call" THEN SubexpressionsOfParameters(expr, base, 1)
     ELSE <<>>)

\* the loop over expr.parameters from the i-th on: it returns at the first
\* output parameter
SubexpressionsOfParameters(expr, base, i) ==
    IF i > Len(expr.args) \/ expr.out[i] THEN <<>>
    ELSE get_subexpressions(expr.args[i], base \o <<i>>, base \o <<i>>)
         \o SubexpressionsOfParameters(expr, base, i + 1)

RECURSIVE Flatten(_)
Flatten(seqs) == IF seqs = <<>> THEN <<>> ELSE Head(seqs) \o Flatten(Tail(seqs))

\* get_expressions(stat): the expressions of the statement itself, not those
\* of its sub-statements, except for a FOR statement; a call statement is an
\* expression
RECURSIVE get_expressions(_)
get_expressions(ent) ==
    IF ent.s.k = "call"
    THEN << [e |-> FunctionCall(ent.s.name, ent.s.exprs, ent.s.out),
             id |-> ent.id, base |-> ent.id \o <<0>>] >>
    ELSE LET own == [ j \in 1..Len(ent.s.exprs) |->
                        [e |-> ent.s.exprs[j], id |-> ent.id \o <<0, j>>,
                         base |-> ent.id \o <<0, j>>] ]
         IN  IF ent.s.k = "for"
             THEN own \o Flatten([ j \in 1..Len(ent.s.subs[1]) |->
                            get_expressions(Entry(ent.id \o <<1, j>>, ent.s.subs[1][j])) ])
             ELSE own

\* the sub-expressions of each of the statement's expressions, in order
all_subexpressions_of(ent) ==
    Flatten([ j \in 1..Len(get_expressions(ent)) |->
                get_subexpressions(get_expressions(ent)[j].e,
                                   get_expressions(ent)[j].id,
                                   get_expressions(ent)[j].base) ])

\* what get_checkable_objects yields for one statement: the statement, then
\* the sub-expressions of each of its expressions
yield_statement(ent) ==
    <<ent.id>> \o [ j \in 1..Len(all_subexpressions_of(ent)) |->
                    all_subexpressions_of(ent)[j].id ]

\* what one turn of get_statements' loop makes get_checkable_objects yield:
\* node.stat, then node.statements
yield_node(g, node) ==
    LET ents == g.nodes[node].stat \o g.nodes[node].statements
    IN  Flatten([ i \in 1..Len(ents) |-> yield_statement(ents[i]) ])

(***************************************************************************)
(* The scope context: catscan/lint/context.py.  An object that is None is  *)
(* NoObj; a layer of the declaration stack is named by its owner.          *)
(***************************************************************************)
NoObj == <<>>
\* the layer of the globals, pushed by Context.__post_init__
Globals == <<0>>
NewContext ==
    [current_fb |-> NoObj, current_method |-> NoObj, var_stack |-> <<Globals>>]

Entered(c) == [ctx |-> c, raised |-> FALSE]
AssertionError(c) == [ctx |-> c, raised |-> TRUE]

\* _push_stack_context up to its yield, and after it
_push_stack_context_enter(stack, item) == Append(stack, item)
_push_stack_context_exit(stack) == SubSeq(stack, 1, Len(stack) - 1)

\* Context.function_block up to its yield
function_block_enter(c, fb) ==
    IF c.current_fb # NoObj THEN AssertionError(c)
    ELSE Entered([c EXCEPT !.current_fb = fb])
\* Context.function_block after its yield, when the body returned normally
function_block_exit(c) == [c EXCEPT !.current_fb = NoObj]

\* Context.method up to its yield
method_enter(c, method) ==
    IF c.current_method # NoObj THEN AssertionError(c)
    ELSE Entered([c EXCEPT !.current_method = method,
                           !.var_stack = _push_stack_context_enter(@, method)])
\* the exit of a method scope that leaves its layer on the stack
method_exit_no_pop(c) == [c EXCEPT !.current_method = NoObj]
\* Context.method after its yield, when the body returned normally
method_exit(c) ==
    [c EXCEPT !.var_stack = _push_stack_context_exit(@), !.current_method = NoObj]

\* the body of a with-block raised: the exception is thrown into the
\* generator at its yield, where nothing catches it, so that the code after
\* the yield does not run
exit_by_exception(c) == c

(***************************************************************************)
(* The programs of the model.  A function block has declarations, an       *)
(* implementation (<<>> when it is None, else <<statements>>), methods and *)
(* properties; a routine has declarations and statements.                  *)
(***************************************************************************)
Routine(decls, stmts) == [declarations |-> decls, statements |-> stmts]

Arms == { <<>>, <<Assign>>, <<Return, Assign>> }
LoopArms == { <<Assign>>, <<Exit, Assign>>, <<If(<<Continue>>)>> }
Tails == { <<>>, <<CallStat>> }

ControlStatements ==
    { If(a) : a \in Arms }
    \cup { IfElse(a, b) : a \in Arms, b \in Arms }
    \cup { Case(a, b) : a \in Arms, b \in Arms }
    \cup { IfElsif(<<Return>>, <<Return>>), CaseElse(<<Return>>, <<Assign>>) }
    \cup { While(a) : a \in LoopArms }
    \cup { For(<<Assign>>), Labeled(<<Assign>>), Labeled(<<If(<<Assign>>)>>), Labeled(<<>>) }

MethodBodies ==
    { <<c>> \o t : c \in ControlStatements, t \in Tails }
    \cup { <<Exit>>, <<Assign, Continue>>, <<Return, Exit>>, <<Jump>>, <<>> }

Implementations == { <<>>, << <<CallStat>> >>, << <<Return, Assign>> >> }

FB1(impl, body) ==
    [declarations |-> 1, implementation |-> impl,
     methods |-> << Routine(1, body) >>,
     properties |-> << [getter |-> Routine(0, <<Assign>>),
                        setter |-> Routine(1, <<>>)] >>]
FB2 ==
    [declarations |-> 1, implementation |-> <<>>, methods |-> <<>>,
     properties |-> <<>>]

\* code.function_blocks.values()
Programs == { << FB1(impl, body), FB2 >> : impl \in Implementations, body \in MethodBodies }

\* the routines get_checkable_objects goes through for a function block: its
\* implementation, its methods, the getter and the setter of its properties
Units(fb) ==
    << [t |-> "implementation", present |-> fb.implementation # <<>>,
        r |-> Routine(0, IF fb.implementation = <<>> THEN <<>>
                         ELSE fb.implementation[1])] >>
    \o [ m \in 1..Len(fb.methods) |->
           [t |-> "method", present |-> TRUE, r |-> fb.methods[m]] ]
    \o [ q \in 1..(2 * Len(fb.properties)) |->
           IF q % 2 = 1
           THEN [t |-> "getter", present |-> TRUE,
                 r |-> fb.properties[(q + 1) \div 2].getter]
           ELSE [t |-> "setter", present |-> TRUE,
                 r |-> fb.properties[q \div 2].setter] ]

\* identities: function block f is <<f>>, its declarations <<f, 0, d>>, its
\* u-th routine <<f, u>>, the routine's declarations <<f, u, 0, d>>, its
\* statements <<f, u>> \o path, and a property <<f, u, 0>>, u being its getter
DeclIds(owner, n) == [ d \in 1..n |-> owner \o <<0, d>> ]
PropId(f, u) == <<f, u, 0>>

VARIABLES
    settings,        \* Settings: level, checks (code -> None or CheckSettings)
    d_pc,            \* where lint() stands
    d_obj,           \* how many yielded objects lint()'s loop has taken
    d_chk,           \* the registry entry do_checks stands at
    already_checked, \* lint()'s set of checked object ids
    computed,        \* the findings the rule functions produced, in order
    executed,        \* the <<object, code>> pairs whose rule function ran
    printed,         \* the pretty_print calls: finding number and prefix
    errors,          \* lint()'s list: the numbers of the findings returned
    result           \* what lint() returned, None while it runs

dvars ==
    << settings, d_pc, d_obj, d_chk, already_checked, computed, executed,
       printed, errors, result >>

VARIABLES
    program,         \* the CodeSummary: its function blocks
    run,             \* which of two lint() runs over the program this is
    w_pc,            \* where get_checkable_objects stands
    fbi,             \* the function block it is in
    ui,              \* the routine of the function block it is in
    ctx,             \* the Context: _current_fb, _current_method, var_stack
    graph,           \* get_statements: the flow graph of the routine
    todo,            \* get_statements: the nodes to visit
    visited,         \* get_statements: the nodes visited
    pending,         \* the objects the generator yields before its next step
    trace,           \* the objects this run dispatched to the registry, in order
    emitted,         \* the objects this run's walk yielded, in order
    first_trace      \* the trace of the first run, once it has finished

wvars ==
    << program, run, w_pc, fbi, ui, ctx, graph, todo, visited, pending, trace,
       emitted, first_trace >>

VARIABLES
    call_args,       \* the arguments of the function under call
    call_result,     \* what the call returned, once it has returned
    call_pc          \* "call" before the call, "returned" after it

cvars == << call_args, call_result, call_pc >>

VARIABLES
    registered_codes,  \* __REGISTERED_CODES__
    registered_checks, \* __REGISTERED_CHECKS__: per type, its rules in order
    reg_raised,        \* the exception the last registration raised, "" if none
    fixture            \* reset_checks: whether a test runs, and its two copies

rvars == << registered_codes, registered_checks, reg_raised, fixture >>

VARIABLES
    paths_graph,     \* _predicate_on_all_code_paths: the flow graph of its source
    paths_todo,      \* its todo dict, in insertion order: node and path to it
    paths_visited    \* its visited set

pvars == << paths_graph, paths_todo, paths_visited >>

xvars == << cvars, rvars, pvars >>

\* no function is under call
CallIdle ==
    /\ call_args = <<>>
    /\ call_result = <<>>
    /\ call_pc = "idle"

\* reset_checks outside a test
NoFixture == [active |-> FALSE, codes |-> {}, checks |-> <<>>]

\* no rule module has been imported
RegistryIdle ==
    /\ registered_codes = {}
    /\ registered_checks = <<>>
    /\ reg_raised = ""
    /\ fixture = NoFixture

\* no path search is under way
PathsIdle ==
    /\ paths_graph = EmptyGraph
    /\ paths_todo = <<>>
    /\ paths_visited = {}

\* the walk has not started
WalkIdle ==
    /\ program = <<>>
    /\ run = "first"
    /\ w_pc = "idle"
    /\ fbi = 0
    /\ ui = 0
    /\ ctx = NewContext
    /\ graph = EmptyGraph
    /\ todo = {}
    /\ visited = {}
    /\ pending = <<>>
    /\ trace = <<>>
    /\ emitted = <<>>
    /\ first_trace = <<>>

\* lint(): `id(obj) in already_checked`
IsAlreadyCheckedNever(obj) == FALSE
IsAlreadyChecked(obj) == obj \in already_checked

\* _settings.checks.get(code)
checks_get(code) == settings.checks[code]

\* _do_yield altered: every enabled rule's findings are returned
DoYieldAnyLevel(code) ==
    checks_get(code).is_none \/ checks_get(code).enabled

\* LintCheck.__call__: _do_yield
_do_yield(code) ==
    checks_get(code).is_none
      \/ (checks_get(code).enabled /\ checks_get(code).level = ERROR)

\* IsDisabled altered: the settings never disable a rule
IsDisabledNever(code) == FALSE

\* LintCheck.__call__: the check is disabled in the settings
IsDisabled(code) ==
    ~checks_get(code).is_none /\ ~checks_get(code).enabled

\* LintCheck.__call__: check_level
check_level(code) ==
    IF ~checks_get(code).is_none THEN checks_get(code).level ELSE ERROR

\* DisabledByLevel altered: the level never skips a rule
DisabledByLevelNever(code) == FALSE

\* LintCheck.__call__: the check is disabled by its level
DisabledByLevel(code) == check_level(code) > settings.level


\* LintCheck.__call__: the finding is not ignored for its line
ShouldPrint(loc, code) ==
    error_line(loc).is_none \/ ~_is_noqa(error_line(loc).text, code)

DispatchInit ==
    /\ settings \in [level : CheckLevel,
                     checks : [RuleCodes -> {NoCheckSettings} \cup CheckSettings]]
    /\ d_pc = "lint"
    /\ d_obj = 0
    /\ d_chk = 0
    /\ already_checked = {}
    /\ computed = <<>>
    /\ executed = {}
    /\ printed = <<>>
    /\ errors = <<>>
    /\ result = NoResult
    /\ WalkIdle
    /\ CallIdle
    /\ RegistryIdle
    /\ PathsIdle

\* lint(): the loop takes an object that was checked before
LintSkipChecked ==
    /\ d_pc = "lint"
    /\ d_obj < Len(Yielded)
    /\ IsAlreadyChecked(Yielded[d_obj + 1])
    /\ d_obj' = d_obj + 1
    /\ UNCHANGED << settings, d_pc, d_chk, already_checked, computed, executed,
                    printed, errors, result >>
    /\ UNCHANGED << wvars, xvars >>

\* lint(): the loop takes a new object and starts do_checks on it
LintDoChecks ==
    /\ d_pc = "lint"
    /\ d_obj < Len(Yielded)
    /\ ~IsAlreadyChecked(Yielded[d_obj + 1])
    /\ d_obj' = d_obj + 1
    /\ d_chk' = 1
    /\ d_pc' = "do_checks"
    /\ UNCHANGED << settings, already_checked, computed, executed, printed,
                    errors, result >>
    /\ UNCHANGED << wvars, xvars >>

\* do_checks: the object is no instance of the entry's shape
NotInstance ==
    /\ d_pc = "do_checks"
    /\ d_chk <= Len(REGISTERED_CHECKS)
    /\ ~isinstance(Yielded[d_obj], REGISTERED_CHECKS[d_chk].typ)
    /\ d_chk' = d_chk + 1
    /\ UNCHANGED << settings, d_pc, d_obj, already_checked, computed, executed,
                    printed, errors, result >>
    /\ UNCHANGED << wvars, xvars >>

\* LintCheck.__call__ returns at once: disabled in the settings
CheckDisabled ==
    /\ d_pc = "do_checks"
    /\ d_chk <= Len(REGISTERED_CHECKS)
    /\ isinstance(Yielded[d_obj], REGISTERED_CHECKS[d_chk].typ)
    /\ IsDisabled(REGISTERED_CHECKS[d_chk].code)
    /\ d_chk' = d_chk + 1
    /\ UNCHANGED << settings, d_pc, d_obj, already_checked, computed, executed,
                    printed, errors, result >>
    /\ UNCHANGED << wvars, xvars >>

\* LintCheck.__call__ returns at once: disabled by level
CheckBelowLevel ==
    /\ d_pc = "do_checks"
    /\ d_chk <= Len(REGISTERED_CHECKS)
    /\ isinstance(Yielded[d_obj], REGISTERED_CHECKS[d_chk].typ)
    /\ ~IsDisabled(REGISTERED_CHECKS[d_chk].code)
    /\ DisabledByLevel(REGISTERED_CHECKS[d_chk].code)
    /\ d_chk' = d_chk + 1
    /\ UNCHANGED << settings, d_pc, d_obj, already_checked, computed, executed,
                    printed, errors, result >>
    /\ UNCHANGED << wvars, xvars >>

\* LintCheck.__call__ calls the rule function
CheckRun ==
    /\ d_pc = "do_checks"
    /\ d_chk <= Len(REGISTERED_CHECKS)
    /\ isinstance(Yielded[d_obj], REGISTERED_CHECKS[d_chk].typ)
    /\ ~IsDisabled(REGISTERED_CHECKS[d_chk].code)
    /\ ~DisabledByLevel(REGISTERED_CHECKS[d_chk].code)
    /\ executed' = executed \cup {<< d_obj, REGISTERED_CHECKS[d_chk].code >>}
    /\ d_pc' = "func"
    /\ UNCHANGED << settings, d_obj, d_chk, already_checked, computed, printed,
                    errors, result >>
    /\ UNCHANGED << wvars, xvars >>

\* one turn of `for info in self.func(obj, **kwargs)`: the rule function
\* yields a finding at loc; it is printed and returned unless ignored
FuncYield ==
    /\ d_pc = "func"
    /\ Len(computed) < MaxFindings
    /\ \E loc \in Locations :
         LET code == REGISTERED_CHECKS[d_chk].code
             n == Len(computed) + 1
         IN  /\ computed' = Append(computed, [obj |-> d_obj, code |-> code, loc |-> loc])
             /\ IF ShouldPrint(loc, code)
                THEN /\ printed' = Append(printed,
                            [n |-> n, prefix |-> LevelName(check_level(code))])
                     /\ errors' = IF _do_yield(code) THEN Append(errors, n) ELSE errors
                ELSE UNCHANGED << printed, errors >>
    /\ UNCHANGED << settings, d_pc, d_obj, d_chk, already_checked, executed, result >>
    /\ UNCHANGED << wvars, xvars >>

\* the rule function is exhausted
FuncReturn ==
    /\ d_pc = "func"
    /\ d_pc' = "do_checks"
    /\ d_chk' = d_chk + 1
    /\ UNCHANGED << settings, d_obj, already_checked, computed, executed, printed,
                    errors, result >>
    /\ UNCHANGED << wvars, xvars >>

\* do_checks is exhausted: lint() marks the object as checked
DoChecksDone ==
    /\ d_pc = "do_checks"
    /\ d_chk > Len(REGISTERED_CHECKS)
    /\ already_checked' = already_checked \cup {Yielded[d_obj]}
    /\ d_pc' = "lint"
    /\ UNCHANGED << settings, d_obj, d_chk, computed, executed, printed, errors,
                    result >>
    /\ UNCHANGED << wvars, xvars >>

\* lint() returns 1 if there are errors, 0 otherwise
LintReturn ==
    /\ d_pc = "lint"
    /\ d_obj = Len(Yielded)
    /\ result' = IF errors # <<>> THEN 1 ELSE 0
    /\ d_pc' = "done"
    /\ UNCHANGED << settings, d_obj, d_chk, already_checked, computed, executed,
                    printed, errors >>
    /\ UNCHANGED << wvars, xvars >>

DispatchNext ==
    \/ LintSkipChecked
    \/ LintDoChecks
    \/ NotInstance
    \/ CheckDisabled
    \/ CheckBelowLevel
    \/ CheckRun
    \/ FuncYield
    \/ FuncReturn
    \/ DoChecksDone
    \/ LintReturn

vars == << dvars, wvars, xvars >>

SpecDispatch == DispatchInit /\ [][DispatchNext]_vars

(***************************************************************************)
(* The walk: lint() taking the objects of get_checkable_objects, one       *)
(* program, two runs.  Each run has its own Context and already_checked.   *)
(***************************************************************************)
\* the variables of the dispatch the walk leaves alone
didle ==
    << settings, d_pc, d_obj, d_chk, computed, executed, printed, errors, result,
       xvars >>

\* the routine get_checkable_objects is in
Unit == Units(program[fbi])[ui]
\* the routine it takes next
NextUnit == Units(program[fbi])[ui + 1]

WalkInit ==
    /\ program \in Programs
    /\ run = "first"
    /\ w_pc = "function_blocks"
    /\ fbi = 0
    /\ ui = 0
    /\ ctx = NewContext
    /\ graph = EmptyGraph
    /\ todo = {}
    /\ visited = {}
    /\ pending = <<>>
    /\ trace = <<>>
    /\ emitted = <<>>
    /\ first_trace = <<>>
    /\ already_checked = {}
    /\ settings = [level |-> WARNING, checks |-> [c \in RuleCodes |-> NoCheckSettings]]
    /\ d_pc = "idle"
    /\ d_obj = 0
    /\ d_chk = 0
    /\ computed = <<>>
    /\ executed = {}
    /\ printed = <<>>
    /\ errors = <<>>
    /\ result = NoResult
    /\ CallIdle
    /\ RegistryIdle
    /\ PathsIdle

\* `with ctx.function_block(fb)`: the next function block is entered; the
\* block and its declarations are yielded
EnterFunctionBlock ==
    /\ w_pc = "function_blocks"
    /\ fbi < Len(program)
    /\ LET fb == <<fbi + 1>>
           r == function_block_enter(ctx, fb)
       IN  IF r.raised
           THEN /\ w_pc' = "raised"
                /\ ctx' = exit_by_exception(ctx)
                /\ UNCHANGED << fbi, ui, pending >>
           ELSE /\ ctx' = r.ctx
                /\ fbi' = fbi + 1
                /\ ui' = 0
                /\ pending' = <<fb>> \o DeclIds(fb, program[fbi + 1].declarations)
                /\ w_pc' = "routines"
    /\ UNCHANGED << program, run, graph, todo, visited, trace, emitted,
                    first_trace, already_checked, didle >>

\* lint(): the yielded object was checked before: continue
WalkSkipChecked ==
    /\ pending # <<>>
    /\ IsAlreadyChecked(Head(pending))
    /\ emitted' = Append(emitted, Head(pending))
    /\ pending' = Tail(pending)
    /\ UNCHANGED << program, run, w_pc, fbi, ui, ctx, graph, todo, visited, trace,
                    first_trace, already_checked, didle >>

\* lint(): the yielded object goes through do_checks and is marked as checked
WalkDoChecks ==
    /\ pending # <<>>
    /\ ~IsAlreadyChecked(Head(pending))
    /\ emitted' = Append(emitted, Head(pending))
    /\ trace' = Append(trace, Head(pending))
    /\ already_checked' = already_checked \cup {Head(pending)}
    /\ pending' = Tail(pending)
    /\ UNCHANGED << program, run, w_pc, fbi, ui, ctx, graph, todo, visited,
                    first_trace, didle >>

\* lint(): a rule function raises in do_checks; nothing catches it, lint() is
\* left and the generator, suspended inside its with-blocks, is closed
WalkDoChecksRaises ==
    /\ pending # <<>>
    /\ ~IsAlreadyChecked(Head(pending))
    /\ emitted' = Append(emitted, Head(pending))
    /\ trace' = Append(trace, Head(pending))
    /\ pending' = <<>>
    /\ ctx' = exit_by_exception(ctx)
    /\ w_pc' = "raised"
    /\ UNCHANGED << program, run, fbi, ui, graph, todo, visited, first_trace,
                    already_checked, didle >>

\* `if fb.implementation is not None` does not hold
SkipImplementation ==
    /\ w_pc = "routines"
    /\ pending = <<>>
    /\ ui < Len(Units(program[fbi]))
    /\ NextUnit.t = "implementation"
    /\ ~NextUnit.present
    /\ ui' = ui + 1
    /\ UNCHANGED << program, run, w_pc, fbi, ctx, graph, todo, visited, pending,
                    trace, emitted, first_trace, already_checked, didle >>

\* `if fb.implementation is not None` holds: its statements come next,
\* in the scope of the function block alone
BeginImplementation ==
    /\ w_pc = "routines"
    /\ pending = <<>>
    /\ ui < Len(Units(program[fbi]))
    /\ NextUnit.t = "implementation"
    /\ NextUnit.present
    /\ ui' = ui + 1
    /\ w_pc' = "body"
    /\ UNCHANGED << program, run, fbi, ctx, graph, todo, visited, pending, trace,
                    emitted, first_trace, already_checked, didle >>

\* `with ctx.method(method)`: the method and its declarations are yielded
EnterMethod ==
    /\ w_pc = "routines"
    /\ pending = <<>>
    /\ ui < Len(Units(program[fbi]))
    /\ NextUnit.t = "method"
    /\ LET method == <<fbi, ui + 1>>
           r == method_enter(ctx, method)
       IN  IF r.raised
           THEN /\ w_pc' = "raised"
                /\ ctx' = exit_by_exception(ctx)
                /\ UNCHANGED << ui, pending >>
           ELSE /\ ctx' = r.ctx
                /\ ui' = ui + 1
                /\ pending' = <<method>> \o DeclIds(method, NextUnit.r.declarations)
                /\ w_pc' = "body"
    /\ UNCHANGED << program, run, fbi, graph, todo, visited, trace, emitted,
                    first_trace, already_checked, didle >>

\* `yield prop, ctx`: the property is yielded in the scope of the function
\* block, outside the scopes of its accessors
YieldProperty ==
    /\ w_pc = "routines"
    /\ pending = <<>>
    /\ ui < Len(Units(program[fbi]))
    /\ NextUnit.t = "getter"
    /\ ui' = ui + 1
    /\ pending' = << PropId(fbi, ui + 1) >>
    /\ w_pc' = "property"
    /\ UNCHANGED << program, run, fbi, ctx, graph, todo, visited, trace, emitted,
                    first_trace, already_checked, didle >>

\* `with ctx.method(prop.getter)`: the declarations of the getter are yielded
EnterGetter ==
    /\ w_pc = "property"
    /\ pending = <<>>
    /\ LET r == method_enter(ctx, <<fbi, ui>>)
       IN  IF r.raised
           THEN /\ w_pc' = "raised"
                /\ ctx' = exit_by_exception(ctx)
                /\ UNCHANGED pending
           ELSE /\ ctx' = r.ctx
                /\ pending' = DeclIds(<<fbi, ui>>, Unit.r.declarations)
                /\ w_pc' = "body"
    /\ UNCHANGED << program, run, fbi, ui, graph, todo, visited, trace, emitted,
                    first_trace, already_checked, didle >>

\* `with ctx.method(prop.setter)`: the declarations of the setter are yielded
EnterSetter ==
    /\ w_pc = "routines"
    /\ pending = <<>>
    /\ ui < Len(Units(program[fbi]))
    /\ NextUnit.t = "setter"
    /\ LET r == method_enter(ctx, <<fbi, ui + 1>>)
       IN  IF r.raised
           THEN /\ w_pc' = "raised"
                /\ ctx' = exit_by_exception(ctx)
                /\ UNCHANGED << ui, pending >>
           ELSE /\ ctx' = r.ctx
                /\ ui' = ui + 1
                /\ pending' = DeclIds(<<fbi, ui + 1>>, NextUnit.r.declarations)
                /\ w_pc' = "body"
    /\ UNCHANGED << program, run, fbi, graph, todo, visited, trace, emitted,
                    first_trace, already_checked, didle >>

\* get_statements starts: the flow graph of the routine is built, and its
\* start node is the one node to visit
GetStatements ==
    /\ w_pc = "body"
    /\ pending = <<>>
    /\ LET r == get_program_graph(Unit.r.statements, <<fbi, ui>>)
       IN  /\ r.err = ""
           /\ graph' = r.g
    /\ todo' = {1}
    /\ visited' = {}
    /\ w_pc' = "statements"
    /\ UNCHANGED << program, run, fbi, ui, ctx, pending, trace, emitted,
                    first_trace, already_checked, didle >>

\* get_statements starts, and building the flow graph raises: the exception
\* leaves the with-blocks of get_checkable_objects, and lint()
GetStatementsRaises ==
    /\ w_pc = "body"
    /\ pending = <<>>
    /\ get_program_graph(Unit.r.statements, <<fbi, ui>>).err # ""
    /\ ctx' = exit_by_exception(ctx)
    /\ w_pc' = "raised"
    /\ UNCHANGED << program, run, fbi, ui, graph, todo, visited, pending, trace,
                    emitted, first_trace, already_checked, didle >>

\* get_statements: `node = todo.pop()` takes an arbitrary node of the set;
\* its stat and statements are yielded, each with its sub-expressions, and
\* its successors not yet visited are added to the set
TodoPop ==
    /\ w_pc = "statements"
    /\ pending = <<>>
    /\ \E node \in todo :
          /\ visited' = visited \cup {node}
          /\ todo' = (todo \ {node}) \cup (next_of(graph, node) \ (visited \cup {node}))
          /\ pending' = yield_node(graph, node)
    /\ UNCHANGED << program, run, w_pc, fbi, ui, ctx, graph, trace, emitted,
                    first_trace, already_checked, didle >>

\* the statements of the implementation are exhausted
LeaveImplementation ==
    /\ w_pc = "statements"
    /\ pending = <<>>
    /\ todo = {}
    /\ Unit.t = "implementation"
    /\ graph' = EmptyGraph
    /\ visited' = {}
    /\ w_pc' = "routines"
    /\ UNCHANGED << program, run, fbi, ui, ctx, todo, pending, trace, emitted,
                    first_trace, already_checked, didle >>

\* the statements of a method, getter or setter are exhausted: the
\* with-block of ctx.method is left
ExitMethod ==
    /\ w_pc = "statements"
    /\ pending = <<>>
    /\ todo = {}
    /\ Unit.t # "implementation"
    /\ ctx' = method_exit(ctx)
    /\ graph' = EmptyGraph
    /\ visited' = {}
    /\ w_pc' = "routines"
    /\ UNCHANGED << program, run, fbi, ui, todo, pending, trace, emitted,
                    first_trace, already_checked, didle >>

\* the routines of the function block are exhausted: the with-block of
\* ctx.function_block is left
ExitFunctionBlock ==
    /\ w_pc = "routines"
    /\ pending = <<>>
    /\ ui = Len(Units(program[fbi]))
    /\ ctx' = function_block_exit(ctx)
    /\ w_pc' = "function_blocks"
    /\ UNCHANGED << program, run, fbi, ui, graph, todo, visited, pending, trace,
                    emitted, first_trace, already_checked, didle >>

\* get_checkable_objects is exhausted: lint() returns
WalkReturn ==
    /\ w_pc = "function_blocks"
    /\ fbi = Len(program)
    /\ w_pc' = "done"
    /\ UNCHANGED << program, run, fbi, ui, ctx, graph, todo, visited, pending,
                    trace, emitted, first_trace, already_checked, didle >>

\* lint() is called again on the same program: a new Context, a new
\* already_checked
SecondRun ==
    /\ w_pc = "done"
    /\ run = "first"
    /\ run' = "second"
    /\ first_trace' = trace
    /\ trace' = <<>>
    /\ emitted' = <<>>
    /\ already_checked' = {}
    /\ ctx' = NewContext
    /\ fbi' = 0
    /\ ui' = 0
    /\ w_pc' = "function_blocks"
    /\ UNCHANGED << program, graph, todo, visited, pending, didle >>

WalkNext ==
    \/ EnterFunctionBlock
    \/ WalkSkipChecked
    \/ WalkDoChecks
    \/ WalkDoChecksRaises
    \/ SkipImplementation
    \/ BeginImplementation
    \/ EnterMethod
    \/ YieldProperty
    \/ EnterGetter
    \/ EnterSetter
    \/ GetStatements
    \/ GetStatementsRaises
    \/ TodoPop
    \/ LeaveImplementation
    \/ ExitMethod
    \/ ExitFunctionBlock
    \/ WalkReturn
    \/ SecondRun

SpecWalk == WalkInit /\ [][WalkNext]_vars

(***************************************************************************)
(* The suppression the specification describes: the whitespace-separated   *)
(* codes listed after `// noqa:` at the end of the violating line.         *)
(***************************************************************************)
\* the positions just after a `//`, optional whitespace and `noqa:`
MarkerTails(line) ==
    { k \in 1..(Len(line) + 1) :
        \E i \in 1..Len(line) :
          /\ LitAt(line, i, Slashes)
          /\ \E j \in WsEnds(line, i + Len(Slashes), 0) :
                LitAt(line, j, NoqaWord) /\ k = j + Len(NoqaWord) }

\* the maximal runs of non-whitespace characters of s
Tokens(s) ==
    { SubSeq(s, a, b) : <<a, b>> \in
        { q \in (1..Len(s)) \X (1..Len(s)) :
            /\ q[1] <= q[2]
            /\ \A k \in q[1]..q[2] : s[k] \notin SpaceChars
            /\ q[1] = 1 \/ s[q[1] - 1] \in SpaceChars
            /\ q[2] = Len(s) \/ s[q[2] + 1] \in SpaceChars } }

\* the codes the marker that ends the line lists; none without such a marker
ListedCodes(line) ==
    UNION { Tokens(SubSeq(line, k, Len(line))) : k \in
        { k \in MarkerTails(line) :
            /\ k <= Len(line)
            /\ line[Len(line)] \notin SpaceChars
            /\ \A tok \in Tokens(SubSeq(line, k, Len(line))) :
                  CODE_PATT_fullmatch(tok) } }

\* the codes listed for each location a finding can point to
ListedAt ==
    [ loc \in Locations |->
        IF error_line(loc).is_none THEN {} ELSE ListedCodes(error_line(loc).text) ]

\* the finding's code is listed in the marker of its violating line
Listed(f) == f.code \in ListedAt[f.loc]

IsPrinted(n) == \E i \in 1..Len(printed) : printed[i].n = n
IsReturned(n) == \E i \in 1..Len(errors) : errors[i] = n
Findings == 1..Len(computed)

\* the configured severity of a rule, ERROR when the settings do not name it
SeverityOf(code) ==
    IF settings.checks[code].is_none THEN ERROR ELSE settings.checks[code].level
\* the rule is enabled and its severity is below the run's minimum level
SeverityBelowMinimum(code) ==
    /\ settings.checks[code].is_none \/ settings.checks[code].enabled
    /\ SeverityOf(code) > settings.level
\* the rule is enabled and its severity is not below the run's minimum level
Reported(code) ==
    /\ settings.checks[code].is_none \/ settings.checks[code].enabled
    /\ SeverityOf(code) <= settings.level

\* lint()'s loop is past entry k of the registry for the i-th yielded object,
\* which it had not checked before
Dispatched(i, k) ==
    /\ \A h \in 1..(i - 1) : Yielded[h] # Yielded[i]
    /\ i < d_obj \/ (i = d_obj /\ d_pc # "func" /\ d_chk > k)

\* C1: a finding is suppressed only when its own rule code is one of the
\* codes listed in the `// noqa:` marker that ends its violating line: a
\* finding whose code is not listed there is printed, and returned when its
\* rule runs at the severity ERROR.
C1_SuppressedOnlyIfListed ==
    \A n \in Findings :
        ~Listed(computed[n]) =>
            /\ IsPrinted(n)
            /\ SeverityOf(computed[n].code) = ERROR => IsReturned(n)

\* C2: a finding of an enabled rule whose violating line ends in a
\* `// noqa:` marker that lists the rule's code is neither printed nor
\* returned, whatever other codes the marker lists with it.
C2_ListedIsSuppressed ==
    \A n \in Findings :
        Listed(computed[n]) => ~IsPrinted(n) /\ ~IsReturned(n)

\* a finished run in which a finding's code was listed together with another
\* code and the finding was suppressed
C2_Witness ==
    /\ d_pc = "done"
    /\ \E n \in Findings :
          /\ Listed(computed[n])
          /\ Cardinality(ListedAt[computed[n].loc]) > 1
          /\ ~IsPrinted(n)

\* C3 as stated: lint() returns 1 if and only if there is a finding that is
\* not suppressed by a noqa marker and whose (enabled) rule has a severity
\* that is not below the run's minimum level; otherwise it returns 0.
C3_FailsIffReportedFinding ==
    d_pc = "done" =>
        /\ result \in {0, 1}
        /\ result = 1 <=>
              \E n \in Findings :
                  ~Listed(computed[n]) /\ Reported(computed[n].code)

\* C3 as amended: lint() returns 1 if and only if a finding of a rule whose
\* severity is ERROR (the default) was printed, that is, was not ignored by
\* dispatch; otherwise it returns 0.
C3_FailsIffErrorFindingPrinted ==
    d_pc = "done" =>
        /\ result \in {0, 1}
        /\ result = 1 <=>
              \E n \in Findings :
                  IsPrinted(n) /\ SeverityOf(computed[n].code) = ERROR

\* a finished run that printed a finding and still returned 0
C3_Witness ==
    /\ d_pc = "done"
    /\ result = 0
    /\ \E n \in Findings : IsPrinted(n) /\ SeverityOf(computed[n].code) # ERROR

\* C4 as stated: the function of an enabled rule whose severity is below the
\* run's minimum level is executed on every matching node, and none of its
\* findings is returned.
C4_BelowLevelStillExecuted ==
    \A i \in 1..Len(Yielded), k \in 1..Len(REGISTERED_CHECKS) :
        ( /\ Dispatched(i, k)
          /\ isinstance(Yielded[i], REGISTERED_CHECKS[k].typ)
          /\ SeverityBelowMinimum(REGISTERED_CHECKS[k].code) )
        => /\ << i, REGISTERED_CHECKS[k].code >> \in executed
           /\ \A n \in Findings :
                 computed[n].code = REGISTERED_CHECKS[k].code => ~IsReturned(n)

\* C4 as amended: the function of an enabled rule whose severity is below the
\* run's minimum level is executed on no node: the rule produces no finding,
\* and nothing of it is printed or returned.
C4_BelowLevelNeverExecuted ==
    \A k \in 1..Len(REGISTERED_CHECKS) :
        SeverityBelowMinimum(REGISTERED_CHECKS[k].code) =>
            /\ \A i \in 1..Len(Yielded) :
                  << i, REGISTERED_CHECKS[k].code >> \notin executed
            /\ \A n \in Findings : computed[n].code # REGISTERED_CHECKS[k].code

\* a finished run with an enabled rule below the minimum level, which matched
\* a node that dispatch went through
C4_Witness ==
    /\ d_pc = "done"
    /\ \E i \in 1..Len(Yielded), k \in 1..Len(REGISTERED_CHECKS) :
          /\ Dispatched(i, k)
          /\ isinstance(Yielded[i], REGISTERED_CHECKS[k].typ)
          /\ SeverityBelowMinimum(REGISTERED_CHECKS[k].code)

\* the rule is explicitly disabled in the settings
ExplicitlyDisabled(code) ==
    ~settings.checks[code].is_none /\ ~settings.checks[code].enabled

\* C14: a rule explicitly disabled in the settings is skipped silently: its
\* function is executed on no node, it produces no finding, nothing of it is
\* printed and nothing returned, whatever its severity and the run's level.
C14_DisabledNeverExecuted ==
    \A k \in 1..Len(REGISTERED_CHECKS) :
        ExplicitlyDisabled(REGISTERED_CHECKS[k].code) =>
            /\ \A i \in 1..Len(Yielded) :
                  << i, REGISTERED_CHECKS[k].code >> \notin executed
            /\ \A n \in Findings : computed[n].code # REGISTERED_CHECKS[k].code
            /\ \A j \in 1..Len(printed) :
                  computed[printed[j].n].code # REGISTERED_CHECKS[k].code
            /\ \A j \in 1..Len(errors) :
                  computed[errors[j]].code # REGISTERED_CHECKS[k].code

\* a finished run with a disabled rule that the level alone would let run,
\* and which matched a node that dispatch went through
C14_Witness ==
    /\ d_pc = "done"
    /\ \E i \in 1..Len(Yielded), k \in 1..Len(REGISTERED_CHECKS) :
          /\ Dispatched(i, k)
          /\ isinstance(Yielded[i], REGISTERED_CHECKS[k].typ)
          /\ ExplicitlyDisabled(REGISTERED_CHECKS[k].code)
          /\ settings.checks[REGISTERED_CHECKS[k].code].level <= settings.level

\* C5: every finding produced by an enabled rule and not suppressed by a noqa
\* marker (its code is not listed in a marker ending its line) is printed,
\* also when its level keeps it out of the returned findings.
C5_UnsuppressedIsPrinted ==
    \A n \in Findings : ~Listed(computed[n]) => IsPrinted(n)


(***************************************************************************)
(* The walk the specification describes.                                   *)
(***************************************************************************)
\* the ids of the statements of a statement list, at any nesting depth
RECURSIVE StatementIds(_, _)
StatementIds(stmts, id) ==
    UNION { {id \o <<i>>}
            \cup UNION { StatementIds(stmts[i].subs[a], id \o <<i, a>>) :
                         a \in 1..Len(stmts[i].subs) } :
            i \in 1..Len(stmts) }

\* the statements of every function-block body, method body and accessor body
ProgramStatementIds ==
    UNION { UNION { StatementIds(Units(program[f])[u].r.statements, <<f, u>>) :
                    u \in 1..Len(Units(program[f])) } :
            f \in 1..Len(program) }

Occurrences(seq, x) == Cardinality({ i \in 1..Len(seq) : seq[i] = x })
IsEmitted(id) == \E i \in 1..Len(emitted) : emitted[i] = id

\* C6: two lint runs over the same program dispatch the same nodes in the
\* same order (every node goes through the registry in registry order, so
\* the sequence of nodes fixes the sequence of (node, rule) dispatches): when
\* the second run has finished, its trace is the trace of the first run.
C6_RunsDispatchInSameOrder ==
    (w_pc = "done" /\ run = "second") => trace = first_trace

\* C7: however the walk leaves its scopes, by exhaustion or by an exception
\* raised inside a scoped body, the Context is as it was before the scopes
\* were entered: no current function block, no current method, and the
\* globals layer alone on the declaration stack.
C7_ScopeRestoredOnEveryExit ==
    w_pc \in {"function_blocks", "done", "raised"} => ctx = NewContext

\* C8: a walk that ran to its end has emitted every statement of every
\* function-block body, method body and accessor body, nested and
\* unreachable ones included.
C8_EveryStatementEmitted ==
    w_pc = "done" => \A id \in ProgramStatementIds : IsEmitted(id)

\* C9: in one lint run no node is dispatched to the registry more than once,
\* however many times the walk emits it.
C9_DispatchedAtMostOnce ==
    \A i \in 1..Len(trace) : \A j \in 1..Len(trace) : trace[i] = trace[j] => i = j

\* a finished run in which a CASE statement was emitted for its node and for
\* each of its arms, a call statement as a statement and as an expression,
\* and each was dispatched once
C9_Witness ==
    /\ w_pc = "done"
    /\ \E x \in { trace[i] : i \in 1..Len(trace) } :
          Occurrences(emitted, x) >= 3 /\ Occurrences(trace, x) = 1
    /\ \E y \in { trace[i] : i \in 1..Len(trace) } :
          Occurrences(emitted, y) = 2 /\ Occurrences(trace, y) = 1

\* C10: whenever the walk is about to emit an object, the function block it
\* is in is the current one, the current method is none or the routine it is
\* in, and the declaration stack is the globals layer, followed by the layer
\* of the current method when there is one; a method is only current inside
\* a function block; and entering a scope of a kind that is active fails.
C10_ScopesStrictlyNested ==
    /\ pending # <<>> =>
          /\ ctx.current_fb = <<fbi>>
          /\ ctx.current_method \in {NoObj, <<fbi, ui>>}
          /\ ctx.var_stack = IF ctx.current_method = NoObj
                             THEN <<Globals>>
                             ELSE <<Globals, ctx.current_method>>
    /\ ctx.current_method # NoObj => ctx.current_fb # NoObj
    /\ \A f \in 1..Len(program) :
          function_block_enter(ctx, <<f>>).raised <=> ctx.current_fb # NoObj
    /\ \A f \in 1..Len(program) : \A u \in 1..Len(Units(program[f])) :
          method_enter(ctx, <<f, u>>).raised <=> ctx.current_method # NoObj

\* the walk emits the declaration of a setter: the third method scope of the
\* function block, entered after the scopes of a method and a getter were left
C10_Witness ==
    /\ pending # <<>>
    /\ w_pc = "body"
    /\ Unit.t = "setter"
    /\ ctx.current_method = <<fbi, ui>>
    /\ Len(ctx.var_stack) = 2


\* a statement list holds an EXIT or CONTINUE statement that no loop encloses,
\* at its top level or inside the arms of its IF, CASE and labeled statements
RECURSIVE HasEscapeOutsideLoop(_)
HasEscapeOutsideLoop(stmts) ==
    \E i \in 1..Len(stmts) :
        \/ stmts[i].k \in {"exit", "continue"}
        \/ /\ ~IsLoop(stmts[i])
           /\ \E a \in 1..Len(stmts[i].subs) : HasEscapeOutsideLoop(stmts[i].subs[a])

\* C15: building the flow graph of a routine that holds an EXIT or CONTINUE
\* statement outside every loop raises, wherever the statement stands: when
\* get_statements has built the graph of a routine and goes through its
\* nodes, the routine holds no such statement.
C15_EscapeOutsideLoopRaises ==
    w_pc = "statements" => ~HasEscapeOutsideLoop(Unit.r.statements)

(***************************************************************************)
(* catscan/utils/tc3.py: the tables of builtin types, ordered by size, and *)
(* common_arithmetic_type.  A type name is a string; an unknown type,      *)
(* Python's None, is the string None.                                      *)
(***************************************************************************)
BUILTIN_BITSTRINGS == << "BOOL", "BYTE", "WORD", "DWORD", "LWORD" >>
BUILTIN_UNSIGNED_INTEGERS == << "USINT", "UINT", "UDINT", "ULINT" >>
BUILTIN_SIGNED_INTEGERS == << "SINT", "INT", "DINT", "LINT" >>
BUILTIN_FLOATING_POINT == << "REAL", "LREAL" >>
BUILTIN_TIME_RELATED ==
    << "TIME", "LTIME", "DATE", "LDATE", "TIME_OF_DAY", "TOD", "LTIME_OF_DAY",
       "LTOD", "DATE_AND_TIME", "DT", "LDATE_AND_TIME", "LDT" >>

\* `typ in typset`, and typset.index(typ)
InTuple(typ, typset) == \E i \in 1..Len(typset) : typset[i] = typ
index(typset, typ) ==
    CHOOSE i \in 1..Len(typset) :
        typset[i] = typ /\ \A j \in 1..(i - 1) : typset[j] # typ
Max(a, b) == IF a >= b THEN a ELSE b

\* the dominance order with the integer families exchanged
dominant_types_signed_first ==
    << BUILTIN_TIME_RELATED, BUILTIN_FLOATING_POINT, BUILTIN_SIGNED_INTEGERS,
       BUILTIN_UNSIGNED_INTEGERS >>
\* dominance of types in order
dominant_types ==
    << BUILTIN_TIME_RELATED, BUILTIN_FLOATING_POINT, BUILTIN_UNSIGNED_INTEGERS,
       BUILTIN_SIGNED_INTEGERS >>

\* what a call returns, and whether it logged a warning
Returns(value) == [value |-> value, warned |-> FALSE]
WarnsAndReturns(value) == [value |-> value, warned |-> TRUE]

\* the loop over dominant_types from its n-th entry on, and what follows it:
\* the warning and `return typ1 or typ2`
RECURSIVE DominantLoop(_, _, _)
DominantLoop(typ1, typ2, n) ==
    IF n > Len(dominant_types)
    THEN WarnsAndReturns(IF typ1 # "" THEN typ1 ELSE typ2)
    ELSE LET typset == dominant_types[n]
         IN  IF InTuple(typ1, typset) /\ ~InTuple(typ2, typset) THEN Returns(typ1)
             ELSE IF InTuple(typ2, typset) /\ ~InTuple(typ1, typset) THEN Returns(typ2)
             ELSE IF InTuple(typ1, typset) /\ InTuple(typ2, typset)
                  THEN Returns(typset[Max(index(typset, typ1), index(typset, typ2))])
             ELSE DominantLoop(typ1, typ2, n + 1)

common_arithmetic_type(typ1, typ2) ==
    IF typ1 = None THEN Returns(typ2)
    ELSE IF typ2 = None THEN Returns(typ1)
    ELSE IF typ1 = typ2 THEN Returns(typ1)
    ELSE DominantLoop(typ1, typ2, 1)

TupleSet(typset) == { typset[i] : i \in 1..Len(typset) }
\* the type names of the model: the builtin types, two user-defined types,
\* the empty name and the unknown type
TypeNames ==
    TupleSet(BUILTIN_BITSTRINGS) \cup TupleSet(BUILTIN_UNSIGNED_INTEGERS)
    \cup TupleSet(BUILTIN_SIGNED_INTEGERS) \cup TupleSet(BUILTIN_FLOATING_POINT)
    \cup TupleSet(BUILTIN_TIME_RELATED) \cup {"ST_Point", "FB_Motor", "", None}

\* the variables the calls of a function leave alone
cidle == << dvars, wvars, rvars, pvars >>

CommonTypeInit ==
    /\ call_args \in [typ1 : TypeNames, typ2 : TypeNames]
    /\ call_result = Returns(None)
    /\ call_pc = "call"
    /\ RegistryIdle
    /\ PathsIdle
    /\ WalkIdle
    /\ settings = [level |-> WARNING, checks |-> [c \in RuleCodes |-> NoCheckSettings]]
    /\ d_pc = "idle"
    /\ d_obj = 0
    /\ d_chk = 0
    /\ already_checked = {}
    /\ computed = <<>>
    /\ executed = {}
    /\ printed = <<>>
    /\ errors = <<>>
    /\ result = NoResult

\* common_arithmetic_type(typ1, typ2) is called and returns
CallCommonArithmeticType ==
    /\ call_pc = "call"
    /\ call_result' = common_arithmetic_type(call_args.typ1, call_args.typ2)
    /\ call_pc' = "returned"
    /\ UNCHANGED << call_args, cidle >>

CommonTypeNext == CallCommonArithmeticType

SpecCommonType == CommonTypeInit /\ [][CommonTypeNext]_vars

\* the rank of the family of a type: time-related above floating point above
\* unsigned above signed; no rank for any other type name
FamilyRank(typ) ==
    IF typ \in TupleSet(BUILTIN_TIME_RELATED) THEN 4
    ELSE IF typ \in TupleSet(BUILTIN_FLOATING_POINT) THEN 3
    ELSE IF typ \in TupleSet(BUILTIN_UNSIGNED_INTEGERS) THEN 2
    ELSE IF typ \in TupleSet(BUILTIN_SIGNED_INTEGERS) THEN 1
    ELSE 0
FamilyOf(typ) ==
    IF typ \in TupleSet(BUILTIN_TIME_RELATED) THEN BUILTIN_TIME_RELATED
    ELSE IF typ \in TupleSet(BUILTIN_FLOATING_POINT) THEN BUILTIN_FLOATING_POINT
    ELSE IF typ \in TupleSet(BUILTIN_UNSIGNED_INTEGERS) THEN BUILTIN_UNSIGNED_INTEGERS
    ELSE BUILTIN_SIGNED_INTEGERS
\* the place of a ranked type in the table of its family
TableIndex(typ) == CHOOSE i \in 1..Len(FamilyOf(typ)) : FamilyOf(typ)[i] = typ

\* C11: common_arithmetic_type is commutative: the value returned for
\* (typ1, typ2) is the value returned for (typ2, typ1), for all type names.
C11_Commutative ==
    call_pc = "returned" =>
        call_result.value =
            common_arithmetic_type(call_args.typ2, call_args.typ1).value

\* C12: common_arithmetic_type follows the reference rule: an unknown
\* argument gives the other one, equal arguments give that type, otherwise
\* the type of the higher-ranked family wins, two types of one family give
\* the one with the higher table index, and two unranked types give one of
\* the two with a warning logged.
C12_MatchesReferenceRule ==
    call_pc = "returned" =>
        LET t1 == call_args.typ1
            t2 == call_args.typ2
            v == call_result.value
        IN  IF t1 = None THEN v = t2
            ELSE IF t2 = None THEN v = t1
            ELSE IF t1 = t2 THEN v = t1
            ELSE IF FamilyRank(t1) > FamilyRank(t2) THEN v = t1
            ELSE IF FamilyRank(t2) > FamilyRank(t1) THEN v = t2
            ELSE IF FamilyRank(t1) > 0
                 THEN v = IF TableIndex(t1) > TableIndex(t2) THEN t1 ELSE t2
            ELSE v \in {t1, t2} /\ call_result.warned

\* a narrow unsigned type wins over a wide signed type
C12_Witness ==
    /\ call_pc = "returned"
    /\ call_args = [typ1 |-> "LINT", typ2 |-> "USINT"]
    /\ call_result.value = "USINT"


(***************************************************************************)
(* Registration: the decorator lint_check and the fixture reset_checks.    *)
(* __REGISTERED_CHECKS__ is a dict: a sequence of [typ, checks] in the     *)
(* order in which the types got their first rule.                          *)
(***************************************************************************)
\* the codes rule modules and tests register rules under, well-formed or not
OneLetter == << "A", "1", "2", "3" >>
TwoDigits == << "A", "B", "1", "2" >>
LowerCase == << "a", "b", "1", "2", "3" >>
TrailingSpace == AB123 \o << " " >>
RegistrationCodes == { AB123, AB1234, OneLetter, TwoDigits, LowerCase, TrailingSpace }

\* the annotation of the first parameter of the decorated function
CheckTypes == { "Statement", "Expression", "Summary", "str" }
\* issubclass(check_type, CheckableObject)
IsCheckable(check_type) == check_type \in { "Statement", "Expression", "Summary" }

\* `code in __REGISTERED_CODES__`
IsRegisteredNever(codes, code) == FALSE
IsRegistered(codes, code) == code \in codes

\* __REGISTERED_CHECKS__[check_type].append(wrapped)
checks_append(checks, check_type, code) ==
    IF \E i \in 1..Len(checks) : checks[i].typ = check_type
    THEN [ i \in 1..Len(checks) |->
             IF checks[i].typ = check_type
             THEN [checks[i] EXCEPT !.checks = Append(@, code)]
             ELSE checks[i] ]
    ELSE Append(checks, [typ |-> check_type, checks |-> <<code>>])

\* `@lint_check(code)` on a function whose first parameter is annotated
\* check_type: the registry after it, and the exception it raised
lint_check(codes, checks, code, check_type) ==
    IF ~CODE_PATT_fullmatch(code)
    THEN [codes |-> codes, checks |-> checks, raised |-> "ValueError"]
    ELSE IF IsRegistered(codes, code)
    THEN [codes |-> codes, checks |-> checks, raised |-> "RuntimeError"]
    ELSE IF ~IsCheckable(check_type)
    THEN [codes |-> codes \cup {code}, checks |-> checks, raised |-> "AssertionError"]
    ELSE [codes |-> codes \cup {code},
          checks |-> checks_append(checks, check_type, code), raised |-> ""]

\* list_(): the codes of all registered rules, type by type
list_(checks) == Flatten([ i \in 1..Len(checks) |-> checks[i].checks ])

\* the variables registration leaves alone
ridle == << dvars, wvars, call_result, call_pc, pvars >>

RegisterInit ==
    /\ RegistryIdle
    /\ PathsIdle
    /\ CallIdle
    /\ WalkIdle
    /\ settings = [level |-> WARNING, checks |-> [c \in RuleCodes |-> NoCheckSettings]]
    /\ d_pc = "idle"
    /\ d_obj = 0
    /\ d_chk = 0
    /\ already_checked = {}
    /\ computed = <<>>
    /\ executed = {}
    /\ printed = <<>>
    /\ errors = <<>>
    /\ result = NoResult

\* a module, or a test, decorates a function with lint_check(code)
Register(code, check_type) ==
    /\ LET r == lint_check(registered_codes, registered_checks, code, check_type)
       IN  /\ registered_codes' = r.codes
           /\ registered_checks' = r.checks
           /\ reg_raised' = r.raised
    /\ call_args' = [code |-> code, check_type |-> check_type]
    /\ UNCHANGED << fixture, ridle >>

RegisterRule ==
    \E code \in RegistrationCodes : \E check_type \in CheckTypes :
        Register(code, check_type)

\* reset_checks before a test: deep copies of the two registries
FixtureSetup ==
    /\ ~fixture.active
    /\ fixture' = [active |-> TRUE, codes |-> registered_codes,
                   checks |-> registered_checks]
    /\ UNCHANGED << registered_codes, registered_checks, reg_raised, call_args,
                    ridle >>

\* reset_checks after the test: the copies become the registries again
FixtureTeardown ==
    /\ fixture.active
    /\ registered_codes' = fixture.codes
    /\ registered_checks' = fixture.checks
    /\ fixture' = NoFixture
    /\ UNCHANGED << reg_raised, call_args, ridle >>

RegisterNext ==
    \/ RegisterRule
    \/ FixtureSetup
    \/ FixtureTeardown

SpecRegister == RegisterInit /\ [][RegisterNext]_vars

\* the number of rules stored under a code
RulesUnder(checks, code) == Occurrences(list_(checks), code)

\* what the registration of a code has to do: fail and store nothing when
\* the code is malformed or already registered, store one rule under the
\* code when it is well-formed and unused and the function is checkable
RegistrationOutcome(code, check_type) ==
    /\ (~CODE_PATT_fullmatch(code) \/ code \in registered_codes) =>
          /\ reg_raised' # ""
          /\ registered_checks' = registered_checks
    /\ (CODE_PATT_fullmatch(code) /\ code \notin registered_codes
            /\ IsCheckable(check_type)) =>
          /\ reg_raised' = ""
          /\ RulesUnder(registered_checks', code) = 1
          /\ code \in registered_codes'

StoredCodes == { list_(registered_checks)[i] : i \in 1..Len(list_(registered_checks)) }

\* C30: after any sequence of registrations, failed ones included, the
\* reserved codes are the codes of the stored rules, each stored once; a
\* registration that fails, whatever the reason (malformed code, duplicate
\* code, first parameter that is no checkable type), leaves the code set and
\* the rule table as they were
C30_ReservedCodesAreStoredCodes ==
    /\ registered_codes = StoredCodes
    /\ \A code \in registered_codes : RulesUnder(registered_checks, code) = 1

(***************************************************************************)
(* The all-paths queries of catscan/utils/program.py: has_assignment asks  *)
(* _predicate_on_all_code_paths whether every path through a routine       *)
(* assigns a variable.                                                     *)
(***************************************************************************)
ADR == <<"A", "D", "R">>

\* is_assignment_for: the isinstance chain over the statement itself
IsAssignmentStatementFor(varname, s) ==
    /\ s.k \in {"assign", "for"}
    /\ streq(s.name, varname)

\* is_assignment_for: a FunctionCall among the sub-expressions that is
\* ADR(varname), or that has varname as an output parameter
IsAssigningCall(varname, e) ==
    /\ e.k = "call"
    /\ \/ streq(e.name, ADR) /\ streq(e.args[1].name, varname)
       \/ \E i \in 1..Len(e.args) :
             e.out[i] /\ e.args[i].k = "var" /\ streq(e.args[i].name, varname)

is_assignment_for(varname, ent) ==
    \/ IsAssignmentStatementFor(varname, ent.s)
    \/ \E j \in 1..Len(all_subexpressions_of(ent)) :
          IsAssigningCall(varname, all_subexpressions_of(ent)[j].e)

\* `node.stat is not None and pred(node.stat)`, or pred(stat) for one of
\* node.statements
PredHoldsOnNode(g, node, varname) ==
    \/ /\ g.nodes[node].stat # NoStat
       /\ is_assignment_for(varname, g.nodes[node].stat[1])
    \/ \E i \in 1..Len(g.nodes[node].statements) :
          is_assignment_for(varname, g.nodes[node].statements[i])

\* [*path, node] altered: the path is dropped
extend_path_dropped(path, node) == <<node>>
\* [*path, node]
extend_path(path, node) == Append(path, node)

\* todo[key] = value: a key the dict holds keeps its place
todo_setitem(t, key, value) ==
    IF \E i \in 1..Len(t) : t[i].node = key
    THEN [ i \in 1..Len(t) |-> IF t[i].node = key
                               THEN [node |-> key, path |-> value] ELSE t[i] ]
    ELSE Append(t, [node |-> key, path |-> value])

\* `for nxt in node.next: if nxt not in visited: todo[nxt] = [*path, node]`,
\* order being the order the set node.next is iterated in
RECURSIVE todo_update(_, _, _, _, _)
todo_update(t, order, i, seen, value) ==
    IF i > Len(order) THEN t
    ELSE todo_update(IF order[i] \in seen THEN t
                     ELSE todo_setitem(t, order[i], value),
                     order, i + 1, seen, value)

\* the orders a set can be iterated in
Orders(S) ==
    { f \in [1..Cardinality(S) -> S] :
        \A i, j \in 1..Cardinality(S) : i # j => f[i] # f[j] }

\* what the query returns: None, or the failing path
NoPath == [is_none |-> TRUE, path |-> <<>>]
FailingPath(path) == [is_none |-> FALSE, path |-> path]

\* the variable the queries ask about, and how the sources write it
Result == <<"r", "e", "s", "u", "l", "t">>
PathVarnames == { Result, <<"R", "e", "s", "u", "l", "t">>, <<"y">> }

\* f(a => result)
OutputCall == CallWith(<<"f">>, <<Var, Variable(Result)>>, <<FALSE, TRUE>>)
\* x := a + ADR(result)
AdrAssign ==
    [Assign EXCEPT !.exprs =
        << Bin(Var, FunctionCall(<<"a", "d", "r">>, <<Variable(Result)>>, <<FALSE>>)) >>]
\* IF cond THEN result := 1; RETURN; END_IF result := 2;
ReturnInIf == << If(<<AssignTo(Result), Return>>), AssignTo(Result) >>

PathArms ==
    { <<>>, <<AssignTo(Result)>>, <<Assign>>, <<Return>>,
      <<AssignTo(Result), Return>>, <<Assign, Return>> }
PathTails == { <<>>, <<AssignTo(Result)>>, <<Assign>> }
PathControls ==
    { If(a) : a \in PathArms }
    \cup { IfElse(a, b) : a \in PathArms, b \in PathArms }
    \cup { IfElsif(a, b) : a \in PathArms, b \in PathArms }
    \cup { Case(a, b) : a \in PathArms, b \in PathArms }
    \cup { CaseElse(a, b) : a \in PathArms, b \in PathArms }
    \cup { While(a) : a \in PathArms \cup LoopArms }
    \cup { ForOver(n, <<Assign>>) : n \in { Result, <<"i">> } }
    \cup { If(<<IfElse(<<Return>>, <<Return>>)>>),
           If(<<If(<<AssignTo(Result)>>), Return>>),
           IfElse(<<IfElse(<<AssignTo(Result)>>, <<Return>>)>>, <<Assign>>),
           While(<<If(<<IfElse(<<Continue>>, <<Assign>>), Return>>)>>),
           While(<<While(<<Exit>>), Assign>>),
           While(<<ForOver(<<"i">>, <<If(<<Continue>>), Assign>>)>>),
           While(<<Assign, Continue, Assign>>),
           While(<<If(<<Exit>>), AssignTo(Result)>>),
           While(<<IfElse(<<Continue>>, <<Return>>), Assign>>) }
PathSources ==
    { <<c>> \o t : c \in PathControls, t \in PathTails }
    \cup { ReturnInIf, <<>>, <<OutputCall>>, <<AdrAssign>>, <<Exit>>,
           <<Assign, OutputCall>>, <<If(<<OutputCall>>), AdrAssign>>,
           <<AssignTo(Result), If(<<IfElse(<<Return>>, <<Return>>)>>), Assign>>,
           <<AssignTo(Result), While(<<IfElse(<<Continue>>, <<Return>>), Assign>>), Assign>>,
           <<AssignTo(Result), IfElse(<<Return>>, <<Return>>), Assign>> }

\* the identity of the routine the query is about
PathSourceId == <<1, 1>>

pidle == << dvars, wvars, rvars >>

PathsInit ==
    /\ call_args \in [source : PathSources, varname : PathVarnames]
    /\ call_result = NoPath
    /\ call_pc = "call"
    /\ PathsIdle
    /\ RegistryIdle
    /\ WalkIdle
    /\ settings = [level |-> WARNING, checks |-> [c \in RuleCodes |-> NoCheckSettings]]
    /\ d_pc = "idle"
    /\ d_obj = 0
    /\ d_chk = 0
    /\ already_checked = {}
    /\ computed = <<>>
    /\ executed = {}
    /\ printed = <<>>
    /\ errors = <<>>
    /\ result = None

\* has_assignment(obj, varname) calls _predicate_on_all_code_paths: the flow
\* graph is built, todo holds the start node with the empty path
StartQuery ==
    /\ call_pc = "call"
    /\ LET r == get_program_graph(call_args.source, PathSourceId)
       IN  /\ r.err = ""
           /\ paths_graph' = r.g
    /\ paths_todo' = << [node |-> 1, path |-> <<>>] >>
    /\ paths_visited' = {}
    /\ call_pc' = "search"
    /\ UNCHANGED << call_args, call_result, pidle >>

\* building the flow graph raises
StartQueryRaises ==
    /\ call_pc = "call"
    /\ get_program_graph(call_args.source, PathSourceId).err # ""
    /\ call_pc' = "raised"
    /\ UNCHANGED << call_args, call_result, pvars, pidle >>

\* `node, path = todo.popitem()`: the pair inserted last
PoppedItem == paths_todo[Len(paths_todo)]
AfterPopitem == SubSeq(paths_todo, 1, Len(paths_todo) - 1)

\* the predicate holds on the popped node: `continue`, or `break`
PopSatisfied ==
    /\ call_pc = "search"
    /\ paths_todo # <<>>
    /\ PredHoldsOnNode(paths_graph, PoppedItem.node, call_args.varname)
    /\ paths_todo' = AfterPopitem
    /\ paths_visited' = paths_visited \cup {PoppedItem.node}
    /\ UNCHANGED << call_args, call_result, call_pc, paths_graph, pidle >>

\* the predicate holds nowhere on the popped node and it has no successor:
\* `return [*path, node]`
PopTerminal ==
    /\ call_pc = "search"
    /\ paths_todo # <<>>
    /\ ~PredHoldsOnNode(paths_graph, PoppedItem.node, call_args.varname)
    /\ next_of(paths_graph, PoppedItem.node) = {}
    /\ paths_todo' = AfterPopitem
    /\ paths_visited' = paths_visited \cup {PoppedItem.node}
    /\ call_result' = FailingPath(extend_path(PoppedItem.path, PoppedItem.node))
    /\ call_pc' = "returned"
    /\ UNCHANGED << call_args, paths_graph, pidle >>

\* the predicate holds nowhere on the popped node: its successors not yet
\* visited are put on todo
PopExpand ==
    /\ call_pc = "search"
    /\ paths_todo # <<>>
    /\ ~PredHoldsOnNode(paths_graph, PoppedItem.node, call_args.varname)
    /\ next_of(paths_graph, PoppedItem.node) # {}
    /\ paths_visited' = paths_visited \cup {PoppedItem.node}
    /\ \E order \in Orders(next_of(paths_graph, PoppedItem.node)) :
          paths_todo' = todo_update(AfterPopitem, order, 1, paths_visited',
                                    extend_path(PoppedItem.path, PoppedItem.node))
    /\ UNCHANGED << call_args, call_result, call_pc, paths_graph, pidle >>

\* todo is empty: `return None`
ReturnNone ==
    /\ call_pc = "search"
    /\ paths_todo = <<>>
    /\ call_result' = NoPath
    /\ call_pc' = "returned"
    /\ UNCHANGED << call_args, pvars, pidle >>

PathsNext ==
    \/ StartQuery
    \/ StartQueryRaises
    \/ PopSatisfied
    \/ PopTerminal
    \/ PopExpand
    \/ ReturnNone

SpecPaths == PathsInit /\ [][PathsNext]_vars

\* the nodes of the graph, its terminal nodes, and whether the query's
\* predicate holds on a node
PathNodes == 1..Len(paths_graph.nodes)
IsTerminal(n) == next_of(paths_graph, n) = {}
Holds(n) == PredHoldsOnNode(paths_graph, n, call_args.varname)

\* whether control can leave a statement list at its end
RECURSIVE CanFallThrough(_)
CompletesNormally(s) ==
    IF s.k \in {"return", "exit", "continue", "jump"} THEN FALSE
    ELSE IF s.k \in {"if", "case"}
    THEN ~s.has_else \/ \E a \in 1..Len(s.subs) : CanFallThrough(s.subs[a])
    ELSE IF s.k = "labeled" THEN CanFallThrough(s.subs[1])
    ELSE TRUE
CanFallThrough(stmts) == \A i \in 1..Len(stmts) : CompletesNormally(stmts[i])
EndsInReturn(stmts) == stmts # <<>> /\ stmts[Len(stmts)].k = "return"

\* the first-arm nodes of the IF statements of the graph; for each, the
\* statement, the node the arms branch from, the if_end node (created just
\* before the first arm's node) and the nodes of its arms
IfNodes == { n \in PathNodes : paths_graph.nodes[n].label = "if" }
IfStatementOf(n) == paths_graph.nodes[n].stat[1].s
BranchNodeOf(n) == CHOOSE b \in prev_of(paths_graph, n) : TRUE
PostNodeOf(n) == n - 1
ArmNode(n, a) ==
    CHOOSE m \in next_of(paths_graph, BranchNodeOf(n)) :
        paths_graph.nodes[m].label = ArmLabel(IfStatementOf(n), a)
\* the nodes made for an arm that its first node reaches: nodes are numbered
\* in the order they are made
RECURSIVE ReachedFrom(_, _)
ReachedFrom(S, first) ==
    LET T == S \cup { m \in PathNodes :
                        m > first /\ \E k \in S : m \in next_of(paths_graph, k) }
    IN  IF T = S THEN S ELSE ReachedFrom(T, first)
ArmNodes(n, a) == ReachedFrom({ArmNode(n, a)}, ArmNode(n, a))

HasImplicitElse(n) ==
    \E e \in next_of(paths_graph, BranchNodeOf(n)) :
        /\ paths_graph.nodes[e].label = "_else"
        /\ paths_graph.nodes[e].stat = NoStat
        /\ paths_graph.nodes[e].statements = <<>>
        /\ next_of(paths_graph, e) = {PostNodeOf(n)}

\* C16: an IF without ELSE has an implicit empty else arm joining the
\* post-node; an arm whose end is reachable joins the post-node, an arm
\* ending in RETURN does not; and for `IF cond THEN result := 1; RETURN;
\* END_IF result := 2;` the all-paths query for the assignment of result
\* returns no counterexample
C16_ArmsJoinPostNode ==
    /\ call_pc \in {"search", "returned"} =>
          \A n \in IfNodes :
             /\ paths_graph.nodes[PostNodeOf(n)].label = "if_end"
             /\ ~IfStatementOf(n).has_else => HasImplicitElse(n)
             /\ \A a \in 1..Len(IfStatementOf(n).subs) :
                   /\ CanFallThrough(IfStatementOf(n).subs[a]) =>
                         \E m \in ArmNodes(n, a) :
                            PostNodeOf(n) \in next_of(paths_graph, m)
                   /\ EndsInReturn(IfStatementOf(n).subs[a]) =>
                         \A m \in ArmNodes(n, a) :
                            PostNodeOf(n) \notin next_of(paths_graph, m)
    /\ (/\ call_pc = "returned"
        /\ call_args.source = ReturnInIf
        /\ streq(call_args.varname, Result)) => call_result.is_none

\* the query returned for the IF whose only arm ends in RETURN
C16_Witness ==
    /\ call_pc = "returned"
    /\ call_args.source = ReturnInIf
    /\ call_args.varname = Result
    /\ call_result.is_none
    /\ \E n \in IfNodes : EndsInReturn(IfStatementOf(n).subs[1]) /\ HasImplicitElse(n)

\* the nodes a path from the entry node reaches without passing through a
\* node the predicate holds on
RECURSIVE ReachedUnsatisfied(_)
ReachedUnsatisfied(S) ==
    LET T == S \cup { m \in PathNodes :
                        /\ ~Holds(m)
                        /\ \E n \in S : m \in next_of(paths_graph, n) }
    IN  IF T = S THEN S ELSE ReachedUnsatisfied(T)
FailingTerminals ==
    { n \in ReachedUnsatisfied(IF Holds(1) THEN {} ELSE {1}) : IsTerminal(n) }

\* a list of nodes from the entry node to a terminal node along successor
\* edges, the predicate holding on none of them
IsFailingPath(path) ==
    /\ Len(path) >= 1
    /\ path[1] = 1
    /\ IsTerminal(path[Len(path)])
    /\ \A i \in 1..(Len(path) - 1) : path[i + 1] \in next_of(paths_graph, path[i])
    /\ \A i \in 1..Len(path) : path[i] \in PathNodes /\ ~Holds(path[i])

\* C20: _predicate_on_all_code_paths returns None exactly when every path
\* from the entry node to a terminal node passes through a node the
\* predicate holds on (on its stat or on one of its statements); otherwise
\* it returns a list of nodes from the entry node to a terminal node along
\* successor edges, the predicate holding on none of them
C20_NoneIffAllPathsSatisfied ==
    call_pc = "returned" =>
        /\ call_result.is_none <=> FailingTerminals = {}
        /\ ~call_result.is_none => IsFailingPath(call_result.path)

\* a failing path through a branch was returned for a routine that has a
\* node the predicate holds on
C20_Witness ==
    /\ call_pc = "returned"
    /\ ~call_result.is_none
    /\ Len(call_result.path) >= 3
    /\ \E n \in PathNodes : Holds(n) /\ n \in paths_visited

(***************************************************************************)
(* Loops in the flow graph: program.py, _get_program_graph.  The node      *)
(* labelled "loop" carries the loop statement (the loop head), its         *)
(* successor "loop_start" is the body's first node, and "loop_end" is the  *)
(* node the statements after the loop continue from.                       *)
(***************************************************************************)
LoopNodes == { n \in PathNodes : paths_graph.nodes[n].label = "loop" }
LoopStatementOf(n) == paths_graph.nodes[n].stat[1].s
LoopStartOf(n) ==
    CHOOSE m \in next_of(paths_graph, n) : paths_graph.nodes[m].label = "loop_start"
\* loop_end is made right after loop and loop_start
LoopEndOf(n) == n + 2
\* the nodes of the loop's body: what loop_start reaches before the loop is left
RECURSIVE ReachedWithin(_, _)
ReachedWithin(S, n) ==
    LET T == S \cup { m \in PathNodes \ {n, LoopEndOf(n)} :
                        \E k \in S : m \in next_of(paths_graph, k) }
    IN  IF T = S THEN S ELSE ReachedWithin(T, n)
BodyNodes(n) == ReachedWithin({LoopStartOf(n)}, n)
HasBackEdge(n) == \E m \in BodyNodes(n) : n \in next_of(paths_graph, m)
HasConditionFalsePath(n) ==
    \E e \in next_of(paths_graph, n) :
        /\ paths_graph.nodes[e].label = "_else"
        /\ paths_graph.nodes[e].statements = <<>>
        /\ next_of(paths_graph, e) = {LoopEndOf(n)}

\* C23: for every WHILE, REPEAT or FOR loop of the graph, a body whose end
\* can be reached has a node with the loop head as successor (a back edge),
\* and the loop head has a condition-false path to the loop-exit node.
C23_LoopHasBackEdge ==
    call_pc \in {"search", "returned"} =>
        \A n \in LoopNodes :
            /\ CanFallThrough(LoopStatementOf(n).subs[1]) => HasBackEdge(n)
            /\ HasConditionFalsePath(n)

\* what the graph has instead: the condition-false path, and the end of the
\* body joined to loop_end
C23_BodyEndJoinsLoopEnd ==
    call_pc \in {"search", "returned"} =>
        \A n \in LoopNodes :
            /\ HasConditionFalsePath(n)
            /\ ~HasBackEdge(n)
            /\ CanFallThrough(LoopStatementOf(n).subs[1]) =>
                    \E m \in BodyNodes(n) : LoopEndOf(n) \in next_of(paths_graph, m)

\* the statement an identity below the routine's names: the indices of the
\* statement and of the arm holding it, alternating
RECURSIVE StatementAt(_, _)
StatementAt(stmts, path) ==
    IF Len(path) = 1 THEN stmts[path[1]]
    ELSE StatementAt(stmts[path[1]].subs[path[2]], SubSeq(path, 3, Len(path)))
PathOf(id) == SubSeq(id, Len(PathSourceId) + 1, Len(id))
\* the identities of the loops a statement is in, and the innermost of them
EnclosingLoops(id) ==
    { p \in { SubSeq(id, 1, l) : l \in (Len(PathSourceId) + 1)..(Len(id) - 1) } :
        /\ (Len(p) - Len(PathSourceId)) % 2 = 1
        /\ IsLoop(StatementAt(call_args.source, PathOf(p))) }
InnermostLoop(id) ==
    CHOOSE p \in EnclosingLoops(id) : \A q \in EnclosingLoops(id) : Len(q) <= Len(p)
LoopNodeOf(id) == CHOOSE n \in LoopNodes : paths_graph.nodes[n].stat[1].id = id
\* the statements of a node, its controlling statement included
EntriesOf(n) ==
    { paths_graph.nodes[n].stat[i] : i \in 1..Len(paths_graph.nodes[n].stat) }
    \cup { paths_graph.nodes[n].statements[i] : i \in 1..Len(paths_graph.nodes[n].statements) }
NodesHolding(kind) == { n \in PathNodes : \E ent \in EntriesOf(n) : ent.s.k = kind }
JumpOf(n, kind) == CHOOSE ent \in EntriesOf(n) : ent.s.k = kind
\* whether the statement `later` follows the statement `id` in its statement
\* list, or is nested in one that does
Follows(later, id) ==
    /\ Len(later) >= Len(id)
    /\ SubSeq(later, 1, Len(id) - 1) = SubSeq(id, 1, Len(id) - 1)
    /\ later[Len(id)] > id[Len(id)]
RECURSIVE ReachedFromEntry(_)
ReachedFromEntry(S) ==
    LET T == S \cup { m \in PathNodes : \E k \in S : m \in next_of(paths_graph, k) }
    IN  IF T = S THEN S ELSE ReachedFromEntry(T)
RemainderUnplaced(n, kind) ==
    \A m \in ReachedFromEntry({1}) : \A ent \in EntriesOf(m) :
        ~Follows(ent.id, JumpOf(n, kind).id)

\* C24: in a loop, the node holding an EXIT has the loop-exit node of the
\* innermost enclosing loop as its only successor, the node holding a
\* CONTINUE has the head of the innermost enclosing loop as its only
\* successor, and the statements that follow either in its branch are in no
\* node the entry reaches.
C24_ExitAndContinueTargets ==
    call_pc \in {"search", "returned"} =>
        /\ \A n \in NodesHolding("exit") :
               /\ next_of(paths_graph, n) =
                      {LoopEndOf(LoopNodeOf(InnermostLoop(JumpOf(n, "exit").id)))}
               /\ RemainderUnplaced(n, "exit")
        /\ \A n \in NodesHolding("continue") :
               /\ next_of(paths_graph, n) =
                      {LoopNodeOf(InnermostLoop(JumpOf(n, "continue").id))}
               /\ RemainderUnplaced(n, "continue")

\* what the graph has: EXIT as above, and the node holding a CONTINUE
\* joined to loop_start, the first node of the body, which is not the node
\* the condition-false path leaves from
C24_ContinueJoinsLoopStart ==
    call_pc \in {"search", "returned"} =>
        /\ \A n \in NodesHolding("exit") :
               /\ next_of(paths_graph, n) =
                      {LoopEndOf(LoopNodeOf(InnermostLoop(JumpOf(n, "exit").id)))}
               /\ RemainderUnplaced(n, "exit")
        /\ \A n \in NodesHolding("continue") :
               /\ next_of(paths_graph, n) =
                      {LoopStartOf(LoopNodeOf(InnermostLoop(JumpOf(n, "continue").id)))}
               /\ RemainderUnplaced(n, "continue")

(***************************************************************************)
(* Name resolution: catscan/lint/context.py.  Names and type names are     *)
(* sequences of characters; a str | None is a record, is_none telling      *)
(* None; a dict is the sequence of its items [k, v] in insertion order.    *)
(***************************************************************************)
NoName == [is_none |-> TRUE, name |-> <<>>]
Name(name) == [is_none |-> FALSE, name |-> name]
\* ComplexType = object()
ComplexType == Name(<<"<ComplexType>">>)

Item(k, v) == [k |-> k, v |-> v]
dict_has(d, k) == \E i \in 1..Len(d) : d[i].k = k
dict_getitem(d, k) == d[CHOOSE i \in 1..Len(d) : d[i].k = k].v
\* d1 | d2, and d1.update(d2): the keys of d1 keep their place
RECURSIVE dict_union(_, _)
dict_union(d1, d2) ==
    IF d2 = <<>> THEN d1
    ELSE dict_union(IF dict_has(d1, Head(d2).k)
                    THEN [ i \in 1..Len(d1) |->
                             IF d1[i].k = Head(d2).k THEN Head(d2) ELSE d1[i] ]
                    ELSE Append(d1, Head(d2)),
                    Tail(d2))

\* what a lookup returns: the key (or None) and the value, found telling
\* that the value is not None
Found(k, v) == [key |-> Name(k), found |-> TRUE, value |-> v]
NotFound(key) == [key |-> key, found |-> FALSE, value |-> NoName]

\* tc3.get_case_insensitive_with_fixed_key(dct, key), key being a str
get_case_insensitive_with_fixed_key(dct, key) ==
    IF dict_has(dct, key) THEN Found(key, dict_getitem(dct, key))
    ELSE IF \E i \in 1..Len(dct) : streq(dct[i].k, key)
    THEN LET i == CHOOSE j \in 1..Len(dct) :
                     /\ streq(dct[j].k, key)
                     /\ \A h \in 1..(j - 1) : ~streq(dct[h].k, key)
         IN  Found(dct[i].k, dct[i].v)
    ELSE NotFound(NoName)

\* _get_var_type: _dict_getter(d, k)
_dict_getter(strict, d, k) ==
    IF strict
    THEN IF dict_has(d, k) THEN Found(k, dict_getitem(d, k)) ELSE NotFound(Name(k))
    ELSE get_case_insensitive_with_fixed_key(d, k)

\* _get_var_type: _streq(s1, s2)
_streq(strict, s1, s2) == IF strict THEN s1 = s2 ELSE streq(s1, s2)

\* a function block's extends: None, or the list of the names it extends
NoExtends == [is_none |-> TRUE, names |-> <<>>]
Extends(names) == [is_none |-> FALSE, names |-> names]

FunctionBlockSummary(name, extends, declarations, methods, properties) ==
    [name |-> name, extends |-> extends, declarations |-> declarations,
     methods |-> methods, properties |-> properties]
\* a method or property of a function block: its name and return type
MethodSummary(name, return_type, declarations) ==
    [name |-> name, return_type |-> return_type, is_method |-> TRUE,
     declarations |-> declarations]
PropertySummary(name, return_type) ==
    [name |-> name, return_type |-> return_type, is_method |-> FALSE,
     declarations |-> <<>>]

\* squash_base_extends altered: nothing is inherited
squash_nothing(fb, function_blocks) == fb
\* fb.squash_base_extends(function_blocks): the members of the function
\* blocks fb extends, then its own
RECURSIVE squash_base_extends(_, _)
squash_base_extends(fb, function_blocks) ==
    IF fb.extends.is_none \/ fb.extends.names = <<>> THEN fb
    ELSE IF ~dict_has(function_blocks, fb.extends.names[1]) THEN fb
    ELSE LET extends_from ==
                 squash_base_extends(dict_getitem(function_blocks, fb.extends.names[1]),
                                     function_blocks)
         IN  [fb EXCEPT
                !.declarations = dict_union(extends_from.declarations, fb.declarations),
                !.methods = extends_from.methods \o fb.methods,
                !.properties = extends_from.properties \o fb.properties]

\* Context._get_fb_decl_types(fb): decls | props | methods
_get_fb_decl_types(code, fb) ==
    LET squashed == squash_base_extends(fb, code.function_blocks)
        props == [ i \in 1..Len(squashed.properties) |->
                     Item(squashed.properties[i].name,
                          squashed.properties[i].return_type) ]
        methods == [ i \in 1..Len(squashed.methods) |->
                       Item(squashed.methods[i].name, ComplexType) ]
    IN  dict_union(dict_union(squashed.declarations, props), methods)

\* tc3.is_super(var)
is_super(var) == streq(var, <<"S", "U", "P", "E", "R">>) \/ streq(var, <<"S", "U", "P", "E", "R", "^">>)

\* what _get_var_type returns: the fixed name and the type, whether a
\* warning was logged, and the exception it raised ("" for none)
Resolved(key, typ) == [key |-> key, typ |-> typ, warned |-> FALSE, raised |-> ""]
Unresolved == Resolved(NoName, NoName)
WarnedUnresolved(key) == [key |-> key, typ |-> NoName, warned |-> TRUE, raised |-> ""]
Raises(what) == [key |-> NoName, typ |-> NoName, warned |-> FALSE, raised |-> what]

THIS == <<"T", "H", "I", "S">>
SUPER == <<"S", "U", "P", "E", "R">>
Deref(name) == name \o <<"^">>

\* tc3.BUILTIN_FUNCTIONS, and the entries of tc3.BUILTIN_TYPE_CONVERSIONS for
\* INT and BOOL
BUILTIN_FUNCTIONS ==
    << Item(<<"L", "E", "N">>, Name(<<"I", "N", "T">>)),
       Item(<<"F", "I", "N", "D">>, Name(<<"I", "N", "T">>)),
       Item(<<"T", "R", "U", "N", "C">>, Name(<<"D", "I", "N", "T">>)),
       Item(<<"T", "R", "U", "N", "C", "_", "I", "N", "T">>, Name(<<"I", "N", "T">>)),
       Item(<<"S", "I", "Z", "E", "O", "F">>, Name(<<"U", "S", "I", "N", "T">>)) >>
BUILTIN_TYPE_CONVERSIONS ==
    << Item(<<"B", "O", "O", "L", "_", "T", "O", "_", "I", "N", "T">>,
            Name(<<"I", "N", "T">>)),
       Item(<<"I", "N", "T", "_", "T", "O", "_", "B", "O", "O", "L">>,
            Name(<<"B", "O", "O", "L">>)),
       Item(<<"T", "O", "_", "B", "O", "O", "L">>, Name(<<"B", "O", "O", "L">>)),
       Item(<<"T", "O", "_", "I", "N", "T">>, Name(<<"I", "N", "T">>)) >>

\* the first of the names that _streq finds equal to var, <<>> if none
FirstEqual(strict, var, names) ==
    IF \E i \in 1..Len(names) : _streq(strict, var, names[i])
    THEN << names[CHOOSE i \in 1..Len(names) :
                     /\ _streq(strict, var, names[i])
                     /\ \A h \in 1..(i - 1) : ~_streq(strict, var, names[h])] >>
    ELSE <<>>

\* _get_var_type, SUPER with a method active: whether the function block
\* named ext is known and, squashed, has a method or property of the name
ExtensionHasMethod(self, strict, ext) ==
    LET got == _dict_getter(strict, self.code.function_blocks, ext)
        squashed_ext_fb == squash_base_extends(got.value, self.code.function_blocks)
        members == squashed_ext_fb.methods \o squashed_ext_fb.properties
    IN  /\ got.found
        /\ \E i \in 1..Len(members) :
              _streq(strict, members[i].name, self.current_method.m.name)

\* _get_var_type, var being SUPER or SUPER^ as spelled in supr
SuperType(self, strict, supr) ==
    IF self.current_fb.is_none THEN Raises("TypeError")
    ELSE IF self.current_method.is_none
    THEN IF self.current_fb.fb.extends.is_none THEN Raises("TypeError")
         ELSE IF self.current_fb.fb.extends.names = <<>> THEN Raises("IndexError")
         ELSE Resolved(Name(supr), Name(self.current_fb.fb.extends.names[1]))
    \* `for ext in self._current_fb.extends`: None is not iterable
    ELSE IF self.current_fb.fb.extends.is_none THEN Raises("TypeError")
    ELSE LET names == self.current_fb.fb.extends.names
         IN  IF \E i \in 1..Len(names) : ExtensionHasMethod(self, strict, names[i])
             THEN Resolved(Name(supr),
                           Name(names[CHOOSE i \in 1..Len(names) :
                                   /\ ExtensionHasMethod(self, strict, names[i])
                                   /\ \A h \in 1..(i - 1) :
                                         ~ExtensionHasMethod(self, strict, names[h])]))
             ELSE WarnedUnresolved(Name(supr))

\* _get_var_type: the loop over complex_types, from the i-th dict on
RECURSIVE ComplexTypeLookup(_, _, _, _)
ComplexTypeLookup(strict, complex_types, var, i) ==
    IF i > Len(complex_types) THEN NotFound(NoName)
    ELSE LET got == _dict_getter(strict, complex_types[i], var)
         IN  IF got.found THEN got
             ELSE ComplexTypeLookup(strict, complex_types, var, i + 1)

\* _get_var_type: `for layer in reversed(self.var_stack)`, from layer i down
RECURSIVE StackLookup(_, _, _, _)
StackLookup(strict, var_stack, var, i) ==
    IF i = 0 THEN Unresolved
    ELSE LET got == _dict_getter(strict, var_stack[i], var)
         IN  IF got.found THEN Resolved(got.key, got.value)
             ELSE StackLookup(strict, var_stack, var, i - 1)

\* _get_var_type from the test of the active method's name on
MethodOrStack(self, var, strict) ==
    IF ~self.current_method.is_none /\ _streq(strict, self.current_method.m.name, var)
    THEN IF self.current_method.m.is_method /\ self.current_method.m.return_type.is_none
         THEN Raises("TypeError")
         ELSE Resolved(Name(self.current_method.m.name), self.current_method.m.return_type)
    ELSE StackLookup(strict, self.var_stack, var, Len(self.var_stack))

\* Context._get_var_type(var, strict)
_get_var_type(self, var, strict) ==
    LET this == FirstEqual(strict, var, <<THIS, Deref(THIS)>>)
        supr == FirstEqual(strict, var, <<SUPER, Deref(SUPER)>>)
        builtin == _dict_getter(strict, self.settings.builtin_symbols, var)
        complex == ComplexTypeLookup(strict,
                       << self.code.data_types, self.code.function_blocks,
                          BUILTIN_TYPE_CONVERSIONS, BUILTIN_FUNCTIONS,
                          self.code.functions >>, var, 1)
    IN  IF this # <<>>
        THEN IF self.current_fb.is_none THEN Raises("TypeError")
             ELSE Resolved(Name(this[1]), Name(self.current_fb.fb.name))
        ELSE IF supr # <<>> THEN SuperType(self, strict, supr[1])
        ELSE IF builtin.found THEN Resolved(builtin.key, builtin.value)
        ELSE IF complex.found THEN Resolved(complex.key, ComplexType)
        ELSE LET fb_vars == IF self.current_fb.is_none THEN <<>>
                            ELSE _get_fb_decl_types(self.code, self.current_fb.fb)
                 field == _dict_getter(strict, fb_vars, var)
             IN  IF ~self.current_fb.is_none /\ field.found
                 THEN Resolved(field.key, field.value)
                 ELSE MethodOrStack(self, var, strict)

\* Context.get_var_type(var, strict): the type of _get_var_type's pair
get_var_type(self, var, strict) ==
    [_get_var_type(self, var, strict) EXCEPT !.key = NoName]
\* Context.get_var_suggestion(var): the name of the pair, strict being False
get_var_suggestion(self, var) ==
    [_get_var_type(self, var, FALSE) EXCEPT !.typ = NoName]

\* the types and names of the programs whose names are resolved
IntType == Name(<<"I", "N", "T">>)
BoolType == Name(<<"B", "O", "O", "L">>)
FB_A == <<"F", "B", "_", "A">>
FB_M == <<"F", "B", "_", "M">>
FB_N == <<"F", "B", "_", "N">>
FB_B == <<"F", "B", "_", "B">>
FB_U == <<"F", "B", "_", "U">>
x_Counter == <<"x", "_", "C", "o", "u", "n", "t", "e", "r">>
X_COUNTER == <<"X", "_", "C", "O", "U", "N", "T", "E", "R">>
Field_f == <<"f">>
Field_b == <<"b", "_", "O", "w", "n">>
Global_g == <<"g", "_", "L", "i", "m", "i", "t">>
Run == <<"R", "u", "n">>
Stop == <<"S", "t", "o", "p">>

\* what FB_A has besides its field f : BOOL
BaseMembers ==
    { [methods |-> <<>>, properties |-> <<>>],
      [methods |-> <<MethodSummary(Run, BoolType, <<>>)>>, properties |-> <<>>],
      [methods |-> <<MethodSummary(<<"R", "U", "N">>, BoolType, <<>>)>>,
       properties |-> <<>>],
      [methods |-> <<>>, properties |-> <<PropertySummary(Run, IntType)>>],
      [methods |-> <<MethodSummary(Stop, NoName, <<>>)>>, properties |-> <<>>] }
\* what FB_B extends
DerivedExtends ==
    { NoExtends, Extends(<<>>), Extends(<<FB_A>>), Extends(<<FB_M>>),
      Extends(<<FB_N>>), Extends(<<FB_U>>), Extends(<<lower(FB_A)>>) }

\* FUNCTION_BLOCK FB_A, FB_M EXTENDS FB_A, FB_N EXTENDS FB_M and FB_B, with
\* the global g_Limit
CodeSummary(base, extends) ==
    [function_blocks |->
        << Item(FB_A, FunctionBlockSummary(FB_A, NoExtends,
                          <<Item(Field_f, BoolType)>>, base.methods, base.properties)),
           Item(FB_M, FunctionBlockSummary(FB_M, Extends(<<FB_A>>), <<>>, <<>>, <<>>)),
           Item(FB_N, FunctionBlockSummary(FB_N, Extends(<<FB_M>>), <<>>, <<>>, <<>>)),
           Item(FB_B, FunctionBlockSummary(FB_B, extends,
                          <<Item(Field_b, IntType)>>,
                          << MethodSummary(Run, BoolType, <<Item(x_Counter, IntType)>>),
                             MethodSummary(Stop, NoName, <<>>) >>,
                          <<>>)) >>,
     data_types |-> <<Item(<<"S", "T", "_", "P">>, NoName)>>,
     functions |-> <<Item(<<"F", "_", "M", "a", "x">>, NoName)>>,
     globals |-> <<Item(Global_g, IntType)>>]
Codes == { CodeSummary(base, extends) : base \in BaseMembers, extends \in DerivedExtends }

\* settings.builtin_symbols
builtin_symbols == <<Item(<<"T", "R", "U", "E">>, BoolType)>>

NoFunctionBlock == [is_none |-> TRUE, fb |-> NoName]
NoMethod == [is_none |-> TRUE, m |-> NoName]
\* Context(code=code, settings=settings): __post_init__ pushes the globals
Context(code) ==
    [code |-> code, settings |-> [builtin_symbols |-> builtin_symbols],
     var_stack |-> <<code.globals>>,
     current_fb |-> NoFunctionBlock, current_method |-> NoMethod]

\* the names resolution is asked for
ResolveNames ==
    { SUPER, Deref(SUPER), lower(SUPER), THIS, Field_f, <<"F">>, Field_b,
      x_Counter, X_COUNTER, Global_g, lower(Global_g), Run, Stop, FB_A,
      <<"l", "e", "n">>, <<"t", "r", "u", "e">>, <<"z">> }

\* no call has been made in the scope
NoCall == [fn |-> "", var |-> <<>>, strict |-> FALSE]

qidle == << dvars, wvars, rvars, pvars >>

ResolveInit ==
    /\ call_args \in { [self |-> Context(code), call |-> NoCall] : code \in Codes }
    /\ call_result = Unresolved
    /\ call_pc = "global"
    /\ PathsIdle
    /\ RegistryIdle
    /\ WalkIdle
    /\ settings = [level |-> WARNING, checks |-> [c \in RuleCodes |-> NoCheckSettings]]
    /\ d_pc = "idle"
    /\ d_obj = 0
    /\ d_chk = 0
    /\ already_checked = {}
    /\ computed = <<>>
    /\ executed = {}
    /\ printed = <<>>
    /\ errors = <<>>
    /\ result = None

\* `with ctx.function_block(fb)` is entered
ScopeFunctionBlock ==
    /\ call_pc = "global"
    /\ \E i \in 1..Len(call_args.self.code.function_blocks) :
          call_args' = [call_args EXCEPT
             !.self.current_fb =
                 [is_none |-> FALSE, fb |-> call_args.self.code.function_blocks[i].v],
             !.call = NoCall]
    /\ call_result' = Unresolved
    /\ call_pc' = "function_block"
    /\ UNCHANGED qidle

\* `with ctx.method(method)` is entered, for a method of the function block
\* or for a property: the declarations of the routine are pushed
ScopeMethod ==
    /\ call_pc = "function_block"
    /\ LET fb == call_args.self.current_fb.fb
       IN  \E m \in { fb.methods[i] : i \in 1..Len(fb.methods) }
                    \cup { fb.properties[i] : i \in 1..Len(fb.properties) } :
              call_args' = [call_args EXCEPT
                 !.self.current_method = [is_none |-> FALSE, m |-> m],
                 !.self.var_stack = Append(@, m.declarations),
                 !.call = NoCall]
    /\ call_result' = Unresolved
    /\ call_pc' = "method"
    /\ UNCHANGED qidle

\* ctx.get_var_type(var, strict) is called
CallGetVarType ==
    /\ call_args.call = NoCall
    /\ \E var \in ResolveNames, strict \in BOOLEAN :
          /\ call_args' = [call_args EXCEPT
                !.call = [fn |-> "get_var_type", var |-> var, strict |-> strict]]
          /\ call_result' = get_var_type(call_args.self, var, strict)
    /\ UNCHANGED << call_pc, qidle >>

\* ctx.get_var_suggestion(var) is called
CallGetVarSuggestion ==
    /\ call_args.call = NoCall
    /\ \E var \in ResolveNames :
          /\ call_args' = [call_args EXCEPT
                !.call = [fn |-> "get_var_suggestion", var |-> var, strict |-> FALSE]]
          /\ call_result' = get_var_suggestion(call_args.self, var)
    /\ UNCHANGED << call_pc, qidle >>

ResolveNext ==
    \/ ScopeFunctionBlock
    \/ ScopeMethod
    \/ CallGetVarType
    \/ CallGetVarSuggestion

SpecResolve == ResolveInit /\ [][ResolveNext]_vars

\* two names that differ at most in the case of their letters
SameName(s1, s2) == lower(s1) = lower(s2)

\* the context of the call, its active function block and method
Self == call_args.self
ActiveFb == Self.current_fb.fb
ActiveMethod == Self.current_method.m

\* the function blocks of the program that fb extends, whatever the depth;
\* exact tells whether a base is found by the spelling of its name only
RECURSIVE AncestorsWithin(_, _, _)
AncestorsWithin(fb, exact, depth) ==
    IF depth = 0 \/ fb.extends.is_none THEN {}
    ELSE LET bases ==
                 { Self.code.function_blocks[i].v :
                     i \in { j \in 1..Len(Self.code.function_blocks) :
                               \E h \in 1..Len(fb.extends.names) :
                                  IF exact
                                  THEN Self.code.function_blocks[j].k = fb.extends.names[h]
                                  ELSE SameName(Self.code.function_blocks[j].k,
                                                fb.extends.names[h]) } }
         IN  bases \cup UNION { AncestorsWithin(b, exact, depth - 1) : b \in bases }
Ancestors(fb, exact) == AncestorsWithin(fb, exact, Len(Self.code.function_blocks))

Declares(fb, name) ==
    \/ \E i \in 1..Len(fb.methods) : SameName(fb.methods[i].name, name)
    \/ \E i \in 1..Len(fb.properties) : SameName(fb.properties[i].name, name)

\* C17: while a method of a function block is active and no function block
\* of its extends chain declares a method or property of the method's name,
\* resolving SUPER or SUPER^ returns no type and logs a warning, and does
\* not raise; whatever the extends chain, an absent or empty one and one
\* naming an unknown function block included
C17_SuperWithoutAncestorMethod ==
    (/\ call_pc = "method"
     /\ call_args.call.fn = "get_var_type"
     /\ call_args.call.var \in {SUPER, Deref(SUPER)}
     /\ \A a \in Ancestors(ActiveFb, FALSE) : ~Declares(a, ActiveMethod.name))
    => /\ call_result.raised = ""
       /\ call_result.typ = NoName
       /\ call_result.warned

\* the same with an extends chain that is not None
C17_SuperWithExtendsList ==
    call_pc = "method" =>
        (ActiveFb.extends.is_none \/ C17_SuperWithoutAncestorMethod)

\* SUPER was left unresolved with a warning for a function block that extends
\* an unknown one
C17_Witness ==
    /\ call_pc = "method"
    /\ call_args.call.fn = "get_var_type"
    /\ call_args.call.var = SUPER
    /\ ActiveFb.extends = Extends(<<FB_U>>)
    /\ call_result.warned

\* the declarations in scope that are not inherited: the layers of the stack
\* and the declarations of the active function block
DeclaredInScope ==
    UNION { { Self.var_stack[l][i] : i \in 1..Len(Self.var_stack[l]) } :
              l \in 1..Len(Self.var_stack) }
    \cup (IF Self.current_fb.is_none THEN {}
          ELSE { ActiveFb.declarations[i] : i \in 1..Len(ActiveFb.declarations) })

\* C18: a name that differs from a declared name at most in the case of its
\* letters resolves, when strict is off, to the type of that declaration,
\* and the suggestion is the declared spelling; when strict is on it
\* resolves to that type if the spelling is the declared one, and is
\* unresolved otherwise
C18_CaseInsensitiveUnlessStrict ==
    \A d \in DeclaredInScope :
       SameName(call_args.call.var, d.k) =>
          /\ call_result.raised = ""
          /\ (call_args.call.fn = "get_var_type" /\ ~call_args.call.strict)
                => call_result.typ = d.v
          /\ (call_args.call.fn = "get_var_type" /\ call_args.call.strict)
                => call_result.typ = (IF call_args.call.var = d.k THEN d.v ELSE NoName)
          /\ call_args.call.fn = "get_var_suggestion"
                => call_result.key = Name(d.k)

\* X_COUNTER was resolved where x_Counter : INT is declared, strict being off
C18_Witness ==
    /\ call_args.call = [fn |-> "get_var_type", var |-> X_COUNTER, strict |-> FALSE]
    /\ Item(x_Counter, IntType) \in DeclaredInScope
    /\ call_result.typ = IntType

\* the fields function blocks that fb extends declare, found by the spelling
\* of the names of the extends chain
InheritedFields(fb) ==
    UNION { { a.declarations[i] : i \in 1..Len(a.declarations) } :
              a \in Ancestors(fb, TRUE) }

C25_MethodNameIsReturnType ==
    (/\ call_pc = "method"
     /\ ActiveMethod.is_method
     /\ ~ActiveMethod.return_type.is_none
     /\ call_args.call = [fn |-> "get_var_type", var |-> ActiveMethod.name,
                          strict |-> FALSE])
    => /\ call_result.raised = ""
       /\ call_result.typ = ActiveMethod.return_type

\* what the name of the active method resolves to: ComplexType, the entry
\* _get_fb_decl_types makes for every method of the function block
C25_MethodNameIsComplexType ==
    (/\ call_pc = "method"
     /\ ActiveMethod.is_method
     /\ ~ActiveMethod.return_type.is_none
     /\ call_args.call = [fn |-> "get_var_type", var |-> ActiveMethod.name,
                          strict |-> FALSE])
    => call_result.typ = ComplexType

(***************************************************************************)
(* Sub-expressions under an exclude predicate: program.py,                 *)
(* get_subexpressions, as base.py calls it (no predicate) and as the rule  *)
(* VAR100 calls it (calls to __QUERYINTERFACE excluded).                   *)
(***************************************************************************)
QUERYINTERFACE ==
    <<"_", "_", "Q", "U", "E", "R", "Y", "I", "N", "T", "E", "R", "F", "A", "C", "E">>
\* tc3.is_call_to
is_call_to(expr, func_name) == expr.k = "call" /\ streq(expr.name, func_name)
\* uninitialized_var_read's _exclude_queryinterface
_exclude_queryinterface(expr) == is_call_to(expr, QUERYINTERFACE)

\* get_subexpressions(expr, exclude=...): the predicate is tested on expr;
\* the recursive calls are made without it
get_subexpressions_exclude(expr, exclude, id, base) ==
    IF exclude /\ _exclude_queryinterface(expr) THEN <<>>
    ELSE get_subexpressions(expr, id, base)

\* __QUERYINTERFACE(a, b)
QueryInterface == FunctionCall(QUERYINTERFACE, <<Var, Variable(<<"b">>)>>, <<FALSE, FALSE>>)
SubexprOperands ==
    { Var, Variable(<<"b">>), Bin(Var, Variable(<<"b">>)), QueryInterface,
      FunctionCall(<<"g">>, <<Variable(<<"y">>), Variable(<<"b">>)>>, <<TRUE, FALSE>>) }
SubexprOuts == { <<FALSE, FALSE>>, <<TRUE, FALSE>>, <<FALSE, TRUE>> }
SubexprFamily ==
    { FunctionCall(<<"f">>, <<x, y>>, o) :
        x \in SubexprOperands, y \in SubexprOperands, o \in SubexprOuts }
    \cup { Bin(x, y) : x \in SubexprOperands, y \in SubexprOperands }
    \cup SubexprOperands

\* the identity of the expression the call is about
SubexprRoot == <<0>>

DispatchIdle ==
    /\ settings = [level |-> WARNING, checks |-> [c \in RuleCodes |-> NoCheckSettings]]
    /\ d_pc = "idle"
    /\ d_obj = 0
    /\ d_chk = 0
    /\ already_checked = {}
    /\ computed = <<>>
    /\ executed = {}
    /\ printed = <<>>
    /\ errors = <<>>
    /\ result = None

SubexprInit ==
    /\ call_args \in [expr : SubexprFamily, exclude : {FALSE}]
    /\ call_result = <<>>
    /\ call_pc = "call"
    /\ PathsIdle
    /\ RegistryIdle
    /\ WalkIdle
    /\ DispatchIdle

\* base.py: `for subexpr in get_subexpressions(expr)`
CallGetSubexpressions ==
    /\ call_pc = "call"
    /\ call_result' = get_subexpressions_exclude(call_args.expr, FALSE, SubexprRoot, SubexprRoot)
    /\ call_pc' = "returned"
    /\ UNCHANGED << call_args, qidle >>

\* var.py: `for subexpr in get_subexpressions(expr, exclude=_exclude_queryinterface)`
CallGetSubexpressionsExclude ==
    /\ call_pc = "call"
    /\ call_args' = [call_args EXCEPT !.exclude = TRUE]
    /\ call_result' = get_subexpressions_exclude(call_args.expr, TRUE, SubexprRoot, SubexprRoot)
    /\ call_pc' = "returned"
    /\ UNCHANGED qidle

SubexprNext ==
    \/ CallGetSubexpressions
    \/ CallGetSubexpressionsExclude

SpecSubexpressions == SubexprInit /\ [][SubexprNext]_vars

\* the positions of an expression: the root, and below a position its
\* operands or parameter values by index
RECURSIVE PositionsOf(_, _)
PositionsOf(expr, at) ==
    {at} \cup UNION { PositionsOf(expr.args[i], at \o <<i>>) : i \in 1..Len(expr.args) }
RECURSIVE ExprAt(_, _)
ExprAt(expr, path) ==
    IF path = <<>> THEN expr ELSE ExprAt(expr.args[Head(path)], Tail(path))
Positions == PositionsOf(call_args.expr, SubexprRoot)
At(p) == ExprAt(call_args.expr, Tail(p))
ParentOf(p) == SubSeq(p, 1, Len(p) - 1)
\* the values of the input arguments of the function calls of the expression
InputValues ==
    { p \in Positions \ {SubexprRoot} :
        At(ParentOf(p)).k = "call" /\ ~At(ParentOf(p)).out[p[Len(p)]] }
EmittedPositions == { call_result[i].id : i \in 1..Len(call_result) }
\* an expression the exclude predicate of VAR100 matches
IsExcluded(e) == e.k = "call" /\ SameName(e.name, QUERYINTERFACE)
\* a position that is, or lies in, an excluded expression
InExcluded(p) == \E l \in 1..Len(p) : IsExcluded(At(SubSeq(p, 1, l)))

\* the input values of calls that are themselves emitted are emitted
C29_InputValuesEmitted ==
    (call_pc = "returned" /\ ~call_args.exclude) => InputValues \subseteq EmittedPositions
\* nothing in an excluded expression is emitted
C29_ExcludedNotDescended ==
    (call_pc = "returned" /\ call_args.exclude) =>
        \A p \in EmittedPositions : ~InExcluded(p)

\* C29: every input-argument value of every function call of an expression
\* is emitted as a sub-expression, wherever it stands relative to the
\* call's output parameters; and with an exclude predicate, no expression
\* it matches is emitted or descended into, at any nesting depth.
C29_InputsEmittedExcludedSkipped ==
    /\ C29_InputValuesEmitted
    /\ C29_ExcludedNotDescended

(***************************************************************************)
(* The queries over the flow graph next to has_assignment: program.py,     *)
(* _find_statement_node, _predicate_on_all_code_paths_to (called by        *)
(* has_assignment_before) and get_statements.  A set todo is kept in       *)
(* paths_todo with empty paths, `todo.pop()` taking any of its members.    *)
(***************************************************************************)
\* `node.stat is target`, or `stat is target` for one of node.statements
HoldsTarget(g, node, target) ==
    \/ g.nodes[node].stat # NoStat /\ g.nodes[node].stat[1].id = target
    \/ \E i \in 1..Len(g.nodes[node].statements) :
          g.nodes[node].statements[i].id = target

\* the loop of _is_node_ok over node.statements, from the i-th on
RECURSIVE StatementsOkBefore(_, _, _, _)
StatementsOkBefore(stats, i, target, varname) ==
    IF i > Len(stats) THEN FALSE
    ELSE IF stats[i].id = target THEN FALSE
    ELSE IF is_assignment_for(varname, stats[i]) THEN TRUE
    ELSE StatementsOkBefore(stats, i + 1, target, varname)

\* _is_node_ok: whether the predicate holds on the node before the target
_is_node_ok(g, node, target, varname) ==
    IF g.nodes[node].stat # NoStat /\ g.nodes[node].stat[1].id = target THEN FALSE
    ELSE IF g.nodes[node].stat # NoStat
            /\ is_assignment_for(varname, g.nodes[node].stat[1]) THEN TRUE
    ELSE StatementsOkBefore(g.nodes[node].statements, 1, target, varname)

\* [node, *path]
prepend_path(node, path) == <<node>> \o path

\* `for nxt in node.next: if nxt not in visited: todo.add(nxt)`
RECURSIVE todo_add(_, _, _)
todo_add(t, nodes, seen) ==
    IF nodes = {} THEN t
    ELSE LET n == CHOOSE m \in nodes : \A o \in nodes : m <= o
         IN  todo_add(IF n \in seen \/ \E i \in 1..Len(t) : t[i].node = n THEN t
                      ELSE Append(t, [node |-> n, path |-> <<>>]),
                      nodes \ {n}, seen)
\* the set todo without the member at place i
todo_without(t, i) == SubSeq(t, 1, i - 1) \o SubSeq(t, i + 1, Len(t))

\* a statement that is not of the routine
ForeignStatement == <<2, 1, 1>>
QueryVarnames == { Result, <<"y">> }
QueryCalls(source) ==
    { [fn |-> "has_assignment", source |-> source, varname |-> v, target |-> <<>>] :
          v \in QueryVarnames }
    \cup { [fn |-> "has_assignment_before", source |-> source, varname |-> v, target |-> t] :
          v \in QueryVarnames,
          t \in StatementIds(source, PathSourceId) \cup {ForeignStatement} }
    \cup { [fn |-> "get_statements", source |-> source, varname |-> <<>>, target |-> <<>>] }

\* the calls of the model
AllQueryCalls == UNION { QueryCalls(source) : source \in PathSources }

\* no query is called yet
NoQuery == [fn |-> "", source |-> <<>>, varname |-> <<>>, target |-> <<>>]

QueriesInit ==
    /\ call_args = NoQuery
    /\ call_result = NoPath
    /\ call_pc = "caller"
    /\ PathsIdle
    /\ RegistryIdle
    /\ WalkIdle
    /\ DispatchIdle

\* a rule calls has_assignment, has_assignment_before or get_statements
CallQuery ==
    /\ call_pc = "caller"
    /\ call_args' \in AllQueryCalls
    /\ call_pc' = IF call_args'.fn = "has_assignment" THEN "call"
                  ELSE IF call_args'.fn = "has_assignment_before" THEN "call_to"
                  ELSE "call_statements"
    /\ UNCHANGED << call_result, pvars, pidle >>

\* _predicate_on_all_code_paths_to: the flow graph is built, and
\* _find_statement_node starts with todo = {graph}
StartQueryTo ==
    /\ call_pc = "call_to"
    /\ LET r == get_program_graph(call_args.source, PathSourceId)
       IN  /\ r.err = ""
           /\ paths_graph' = r.g
    /\ paths_todo' = << [node |-> 1, path |-> <<>>] >>
    /\ paths_visited' = {}
    /\ call_pc' = "find"
    /\ UNCHANGED << call_args, call_result, pidle >>

\* get_statements: the flow graph is built, todo = {graph}
StartStatements ==
    /\ call_pc = "call_statements"
    /\ LET r == get_program_graph(call_args.source, PathSourceId)
       IN  /\ r.err = ""
           /\ paths_graph' = r.g
    /\ paths_todo' = << [node |-> 1, path |-> <<>>] >>
    /\ paths_visited' = {}
    /\ call_result' = FailingPath(<<>>)
    /\ call_pc' = "walk"
    /\ UNCHANGED << call_args, pidle >>

\* building the flow graph raises
StartRaises ==
    /\ call_pc \in {"call_to", "call_statements"}
    /\ get_program_graph(call_args.source, PathSourceId).err # ""
    /\ call_pc' = "raised"
    /\ UNCHANGED << call_args, call_result, pvars, pidle >>

\* _find_statement_node pops the node that holds the target: it returns the
\* node, and the search starts with todo = {tgt_node: []} and no visited node
FindPopTarget ==
    /\ call_pc = "find"
    /\ \E i \in 1..Len(paths_todo) :
          /\ HoldsTarget(paths_graph, paths_todo[i].node, call_args.target)
          /\ paths_todo' = << [node |-> paths_todo[i].node, path |-> <<>>] >>
    /\ paths_visited' = {}
    /\ call_pc' = "search_to"
    /\ UNCHANGED << call_args, call_result, paths_graph, pidle >>

\* _find_statement_node pops another node: its successors not yet visited
\* are added to todo
FindPopExpand ==
    /\ call_pc = "find"
    /\ \E i \in 1..Len(paths_todo) :
          /\ ~HoldsTarget(paths_graph, paths_todo[i].node, call_args.target)
          /\ paths_visited' = paths_visited \cup {paths_todo[i].node}
          /\ paths_todo' = todo_add(todo_without(paths_todo, i),
                                    next_of(paths_graph, paths_todo[i].node),
                                    paths_visited')
    /\ UNCHANGED << call_args, call_result, call_pc, paths_graph, pidle >>

\* _find_statement_node returns None, and so does the query
FindNone ==
    /\ call_pc = "find"
    /\ paths_todo = <<>>
    /\ call_result' = NoPath
    /\ call_pc' = "returned"
    /\ UNCHANGED << call_args, pvars, pidle >>

PoppedOk == _is_node_ok(paths_graph, PoppedItem.node, call_args.target, call_args.varname)

\* the popped node is ok: nothing is added
ToPopOk ==
    /\ call_pc = "search_to"
    /\ paths_todo # <<>>
    /\ PoppedOk
    /\ paths_todo' = AfterPopitem
    /\ paths_visited' = paths_visited \cup {PoppedItem.node}
    /\ UNCHANGED << call_args, call_result, call_pc, paths_graph, pidle >>

\* the popped node is not ok and has no predecessor: `return [node, *path]`
ToPopEntry ==
    /\ call_pc = "search_to"
    /\ paths_todo # <<>>
    /\ ~PoppedOk
    /\ prev_of(paths_graph, PoppedItem.node) = {}
    /\ paths_todo' = AfterPopitem
    /\ paths_visited' = paths_visited \cup {PoppedItem.node}
    /\ call_result' = FailingPath(prepend_path(PoppedItem.node, PoppedItem.path))
    /\ call_pc' = "returned"
    /\ UNCHANGED << call_args, paths_graph, pidle >>

\* the popped node is not ok: its predecessors not yet visited are put on
\* todo with the path [node, *path]
ToPopExpand ==
    /\ call_pc = "search_to"
    /\ paths_todo # <<>>
    /\ ~PoppedOk
    /\ prev_of(paths_graph, PoppedItem.node) # {}
    /\ paths_visited' = paths_visited \cup {PoppedItem.node}
    /\ \E order \in Orders(prev_of(paths_graph, PoppedItem.node)) :
          paths_todo' = todo_update(AfterPopitem, order, 1, paths_visited',
                                    prepend_path(PoppedItem.node, PoppedItem.path))
    /\ UNCHANGED << call_args, call_result, call_pc, paths_graph, pidle >>

\* todo is empty: `return None`
ToReturnNone ==
    /\ call_pc = "search_to"
    /\ paths_todo = <<>>
    /\ call_result' = NoPath
    /\ call_pc' = "returned"
    /\ UNCHANGED << call_args, pvars, pidle >>

\* get_statements pops a node, yields its statements and adds its
\* successors not yet visited; the result lists the nodes in the order
\* their statements were yielded
StatementsPop ==
    /\ call_pc = "walk"
    /\ \E i \in 1..Len(paths_todo) :
          /\ paths_visited' = paths_visited \cup {paths_todo[i].node}
          /\ call_result' = FailingPath(Append(call_result.path, paths_todo[i].node))
          /\ paths_todo' = todo_add(todo_without(paths_todo, i),
                                    next_of(paths_graph, paths_todo[i].node),
                                    paths_visited')
    /\ UNCHANGED << call_args, call_pc, paths_graph, pidle >>

\* todo is empty: the generator is exhausted
StatementsDone ==
    /\ call_pc = "walk"
    /\ paths_todo = <<>>
    /\ call_pc' = "returned"
    /\ UNCHANGED << call_args, call_result, pvars, pidle >>

\* a query builds the flow graph of its source
QueriesStart ==
    \/ StartQuery
    \/ StartQueryRaises
    \/ StartQueryTo
    \/ StartStatements
    \/ StartRaises

\* the steps of the loops over todo
QueriesLoop ==
    \/ PopSatisfied
    \/ PopTerminal
    \/ PopExpand
    \/ ReturnNone
    \/ FindPopTarget
    \/ FindPopExpand
    \/ FindNone
    \/ ToPopOk
    \/ ToPopEntry
    \/ ToPopExpand
    \/ ToReturnNone
    \/ StatementsPop
    \/ StatementsDone

QueriesNext ==
    \/ CallQuery
    \/ QueriesStart
    \/ QueriesLoop

SpecQueries == QueriesInit /\ [][QueriesNext]_vars
\* a loop runs on: a step it can take is taken
SpecQueriesLive == SpecQueries /\ WF_vars(QueriesLoop)

\* the statements of a node in the order they run: the controlling
\* statement, then node.statements
EntrySeq(n) == paths_graph.nodes[n].stat \o paths_graph.nodes[n].statements
\* the nodes holding the target of the query, and those the entry reaches
TargetNodes ==
    { n \in PathNodes : \E i \in 1..Len(EntrySeq(n)) : EntrySeq(n)[i].id = call_args.target }
ReachableTargetNodes == TargetNodes \cap ReachedFromEntry({1})
\* a statement of the node satisfies the predicate, and neither it nor a
\* statement before it in the node is the target
CountsOn(n) ==
    \E i \in 1..Len(EntrySeq(n)) :
        /\ is_assignment_for(call_args.varname, EntrySeq(n)[i])
        /\ \A j \in 1..i : EntrySeq(n)[j].id # call_args.target
\* the nodes a path from the entry reaches without passing through a node
\* that counts
RECURSIVE ReachedUncounted(_)
ReachedUncounted(S) ==
    LET T == S \cup { m \in PathNodes :
                        \E k \in S : ~CountsOn(k) /\ m \in next_of(paths_graph, k) }
    IN  IF T = S THEN S ELSE ReachedUncounted(T)
\* a path from the entry to the target on which nothing counts
UnsatisfiedPathExists ==
    \E t \in TargetNodes \cap ReachedUncounted({1}) : ~CountsOn(t)
IsFailingPathTo(path) ==
    /\ path # <<>>
    /\ prev_of(paths_graph, path[1]) = {}
    /\ path[Len(path)] \in TargetNodes
    /\ \A i \in 1..Len(path) : ~CountsOn(path[i])
    /\ \A i \in 1..(Len(path) - 1) : path[i + 1] \in next_of(paths_graph, path[i])

ReturnedBefore == call_pc = "returned" /\ call_args.fn = "has_assignment_before"

\* C21: _predicate_on_all_code_paths_to returns None exactly when the target
\* is not reachable from the entry or every path from the entry to it passes,
\* before the target, through a statement satisfying the predicate, the
\* target and what follows it in its node never counting; otherwise it
\* returns a path of unsatisfied nodes from a node without predecessor to
\* the target's node.
C21_NoneIffAllPathsToSatisfied ==
    ReturnedBefore =>
        /\ call_result.is_none <=> (ReachableTargetNodes = {} \/ ~UnsatisfiedPathExists)
        /\ ~call_result.is_none => IsFailingPathTo(call_result.path)

\* the nodes without predecessor: the entry, and the post-node of a
\* construct none of whose arms reaches its end
SourceNodes == { n \in PathNodes : prev_of(paths_graph, n) = {} }
\* what the query answers: it tells the paths from every node without
\* predecessor, the entry or not
C21_NoneIffAllPathsFromSourcesSatisfied ==
    ReturnedBefore =>
        /\ call_result.is_none <=>
               \/ ReachableTargetNodes = {}
               \/ ~\E t \in TargetNodes \cap ReachedUncounted(SourceNodes) : ~CountsOn(t)
        /\ ~call_result.is_none => IsFailingPathTo(call_result.path)

\* a loop of the queries takes a node from todo
InLoop == call_pc \in {"search", "find", "search_to", "walk"}
TakesNode ==
    /\ InLoop
    /\ paths_todo' # paths_todo
    /\ call_pc' = "search_to" => call_pc = "search_to"
\* the node taken was not visited before
TakesUnvisitedNode ==
    TakesNode => \E n \in PathNodes \ paths_visited : paths_visited' = paths_visited \cup {n}
\* a flow graph with a cycle, and one with a node the entry does not reach
RECURSIVE ReachedAfter(_)
ReachedAfter(S) ==
    LET T == S \cup { m \in PathNodes : \E k \in S : m \in next_of(paths_graph, k) }
    IN  IF T = S THEN S ELSE ReachedAfter(T)
HasCycle == \E n \in PathNodes : n \in ReachedAfter(next_of(paths_graph, n))
UnreachedNodes == PathNodes \ ReachedFromEntry({1})
NoDuplicates(seq) == \A i, j \in 1..Len(seq) : i # j => seq[i] # seq[j]
Ended == call_pc \in {"returned", "raised"}

\* C22: the two all-paths queries and the statement walk end on every flow
\* graph, cycles included; a loop never takes a node it visited before, the
\* walk yields the statements of no node twice, and a node the entry does
\* not reach is never visited and is in no result.
C22_QueriesTerminate ==
    /\ InLoop ~> Ended
    /\ [][TakesUnvisitedNode]_vars
    /\ [](call_args.fn = "get_statements" => NoDuplicates(call_result.path))
    /\ [](paths_visited \cap UnreachedNodes = {})
    /\ [](\A i \in 1..Len(call_result.path) : call_result.path[i] \notin UnreachedNodes)

\* a query that ended on a graph with a cycle and a node the entry does not
\* reach, every node the entry reaches visited
C22_Witness ==
    /\ call_pc = "returned"
    /\ HasCycle
    /\ UnreachedNodes # {}
    /\ paths_visited = ReachedFromEntry({1})

(***************************************************************************)
(* Types of expressions: catscan/lint/context.py, get_field_type,          *)
(* get_multi_element_type and get_expr_type, and tc3.py,                   *)
(* get_array_dims_and_base_type.  An element of a MultiElementVariable is  *)
(* a SubscriptList, of which the number of subscripts counts, or a         *)
(* FieldSelector.                                                          *)
(***************************************************************************)
Whitespace == { " ", "\t" }
RECURSIVE SkipWhitespace(_, _)
SkipWhitespace(s, i) ==
    IF i <= Len(s) /\ s[i] \in Whitespace THEN SkipWhitespace(s, i + 1) ELSE i
StartsAt(s, i, lit) ==
    /\ i + Len(lit) - 1 <= Len(s)
    /\ \A j \in 1..Len(lit) : s[i + j - 1] = lit[j]
CountOf(s, c) == Cardinality({ i \in 1..Len(s) : s[i] = c })

\* ARRAY_TYPE_RE.match(arr), ^ARRAY\s*\[([^]]*)]\s*OF\s+(.*)\s*$: whether
\* it matches, and its two groups
ARRAY_TYPE_RE_match(arr) ==
    LET open == SkipWhitespace(arr, 6)
        closes == { j \in (open + 1)..Len(arr) : arr[j] = "]" }
        close == CHOOSE j \in closes : \A h \in closes : j <= h
        of == SkipWhitespace(arr, close + 1)
        base == SkipWhitespace(arr, of + 2)
    IN  IF /\ StartsAt(arr, 1, <<"A", "R", "R", "A", "Y">>)
           /\ StartsAt(arr, open, <<"[">>)
           /\ closes # {}
           /\ StartsAt(arr, of, <<"O", "F">>)
           /\ base > of + 2
        THEN [matched |-> TRUE, group1 |-> SubSeq(arr, open + 1, close - 1),
              group2 |-> SubSeq(arr, base, Len(arr))]
        ELSE [matched |-> FALSE, group1 |-> <<>>, group2 |-> <<>>]

\* tc3.get_array_dims_and_base_type(arr): match is None for a type that is
\* no array, and match.group raises
get_array_dims_and_base_type(arr) ==
    LET match == ARRAY_TYPE_RE_match(arr)
    IN  IF ~match.matched THEN [raised |-> "AttributeError", dims |-> 0, base |-> <<>>]
        ELSE [raised |-> "", dims |-> CountOf(match.group1, ","), base |-> match.group2]

\* the first property streq finds equal to field, from the i-th on
RECURSIVE PropertyType(_, _, _)
PropertyType(properties, field, i) ==
    IF i > Len(properties) THEN NoName
    ELSE IF streq(properties[i].name, field) THEN properties[i].return_type
    ELSE PropertyType(properties, field, i + 1)

\* Context.get_field_type(base_typ, field)
get_field_type(self, base_typ, field) ==
    IF dict_has(self.code.function_blocks, base_typ)
    THEN LET squashed_fb ==
                 squash_base_extends(dict_getitem(self.code.function_blocks, base_typ),
                                     self.code.function_blocks)
         IN  IF dict_has(squashed_fb.declarations, field)
             THEN dict_getitem(squashed_fb.declarations, field)
             ELSE PropertyType(squashed_fb.properties, field, 1)
    ELSE IF dict_has(self.code.data_types, base_typ)
    THEN LET squashed_dt ==
                 squash_base_extends(dict_getitem(self.code.data_types, base_typ),
                                     self.code.data_types)
         IN  IF dict_has(squashed_dt.declarations, field)
             THEN dict_getitem(squashed_dt.declarations, field)
             ELSE NoName
    ELSE NoName

SubscriptList(n) == [k |-> "SubscriptList", n |-> n, field |-> <<>>]
FieldSelector(field) == [k |-> "FieldSelector", n |-> 0, field |-> field]

\* get_multi_element_type: the loop over elements from the i-th on, r being
\* the type so far
RECURSIVE ElementsLoop(_, _, _, _)
ElementsLoop(self, r, elements, i) ==
    IF i > Len(elements) THEN r
    ELSE IF r.typ.is_none \/ r.typ = ComplexType THEN r
    ELSE IF elements[i].k = "SubscriptList"
    THEN LET a == get_array_dims_and_base_type(r.typ.name)
         IN  IF a.raised # "" THEN Raises(a.raised)
             ELSE IF a.dims # elements[i].n THEN WarnedUnresolved(NoName)
             ELSE ElementsLoop(self, [r EXCEPT !.typ = Name(a.base)], elements, i + 1)
    ELSE ElementsLoop(self,
                      [r EXCEPT !.typ = get_field_type(self, r.typ.name, elements[i].field)],
                      elements, i + 1)

\* Context.get_multi_element_type(name, elements)
get_multi_element_type(self, name, elements) ==
    LET r == get_var_type(self, name, FALSE)
    IN  IF r.raised # "" THEN r ELSE ElementsLoop(self, r, elements, 1)

\* the expressions get_expr_type is asked about
Expr(k, op, name, args, elements, type_name) ==
    [k |-> k, op |-> op, name |-> name, args |-> args, elements |-> elements,
     type_name |-> type_name]
Integer == Expr("Integer", "", <<>>, <<>>, <<>>, NoName)
TypedInteger(type_name) == Expr("Integer", "", <<>>, <<>>, <<>>, Name(type_name))
Boolean == Expr("Boolean", "", <<>>, <<>>, <<>>, NoName)
DirectVariable == Expr("DirectVariable", "", <<>>, <<>>, <<>>, NoName)
SimpleVariable(name) == Expr("SimpleVariable", "", name, <<>>, <<>>, NoName)
MultiElementVariable(name, elements) ==
    Expr("MultiElementVariable", "", name, <<>>, elements, NoName)
UnaryOperation(op, e) == Expr("UnaryOperation", op, <<>>, <<e>>, <<>>, NoName)
BinaryOperation(op, l, r) == Expr("BinaryOperation", op, <<>>, <<l, r>>, <<>>, NoName)
ParenthesizedExpression(e) == Expr("ParenthesizedExpression", "", <<>>, <<e>>, <<>>, NoName)
FunctionCallOf(name) == Expr("FunctionCall", "", name, <<>>, <<>>, NoName)

BooleanType == Name(<<"B", "O", "O", "L", "E", "A", "N">>)
DIntType == Name(<<"D", "I", "N", "T">>)
\* the type names common_arithmetic_type is given, as the strings it
\* compares
TypeStrings ==
    << <<IntType, "INT">>, <<DIntType, "DINT">>, <<BoolType, "BOOL">>,
       <<BooleanType, "BOOLEAN">>, <<ComplexType, "<ComplexType>">> >>
AsString(typ) ==
    IF typ.is_none THEN None
    ELSE TypeStrings[CHOOSE i \in 1..Len(TypeStrings) : TypeStrings[i][1] = typ][2]
AsName(str) ==
    IF str = None THEN NoName
    ELSE TypeStrings[CHOOSE i \in 1..Len(TypeStrings) : TypeStrings[i][2] = str][1]

ComparisonOperators ==
    { "OR", "XOR", "AND", "AND_THEN", "OR_ELSE", "=", "<>", "<=", ">=", "<", ">" }

\* Context.get_expr_type(expr)
RECURSIVE get_expr_type(_, _)
get_expr_type(self, expr) ==
    IF ~expr.type_name.is_none THEN Resolved(NoName, expr.type_name)
    ELSE IF expr.k = "Integer" THEN Resolved(NoName, IntType)
    ELSE IF expr.k = "Boolean" THEN Resolved(NoName, BooleanType)
    ELSE IF expr.k = "DirectVariable" THEN Raises("NotImplementedError")
    ELSE IF expr.k = "SimpleVariable" THEN get_var_type(self, expr.name, FALSE)
    ELSE IF expr.k = "MultiElementVariable"
    THEN get_multi_element_type(self, expr.name, expr.elements)
    ELSE IF expr.k = "UnaryOperation"
    THEN IF expr.op = "NOT" THEN Resolved(NoName, BooleanType)
         ELSE IF expr.op \in {"-", "+"} THEN get_expr_type(self, expr.args[1])
         ELSE Raises("NotImplementedError")
    ELSE IF expr.k = "BinaryOperation"
    THEN IF expr.op \in ComparisonOperators THEN Resolved(NoName, BooleanType)
         ELSE IF expr.op = "MOD" THEN get_expr_type(self, expr.args[1])
         ELSE IF expr.op \in {"+", "-", "*", "/"}
         THEN LET ltyp == get_expr_type(self, expr.args[1])
                  rtyp == get_expr_type(self, expr.args[2])
                  common == common_arithmetic_type(AsString(ltyp.typ), AsString(rtyp.typ))
              IN  IF ltyp.raised # "" THEN ltyp
                  ELSE IF rtyp.raised # "" THEN rtyp
                  ELSE [key |-> NoName, typ |-> AsName(common.value),
                        warned |-> ltyp.warned \/ rtyp.warned \/ common.warned,
                        raised |-> ""]
         ELSE Raises("NotImplementedError")
    ELSE IF expr.k = "ParenthesizedExpression" THEN get_expr_type(self, expr.args[1])
    ELSE LET conv_to == get_case_insensitive_with_fixed_key(BUILTIN_TYPE_CONVERSIONS, expr.name)
             builtin_ret == get_case_insensitive_with_fixed_key(BUILTIN_FUNCTIONS, expr.name)
             func == get_case_insensitive_with_fixed_key(self.code.functions, expr.name)
             fb == get_var_type(self, expr.name, FALSE)
         IN  IF conv_to.found THEN Resolved(NoName, conv_to.value)
             ELSE IF builtin_ret.found THEN Resolved(NoName, builtin_ret.value)
             ELSE IF func.found THEN Resolved(NoName, func.value)
             ELSE IF fb.raised # "" THEN fb
             ELSE IF ~fb.typ.is_none /\ fb.typ # ComplexType THEN fb
             ELSE WarnedUnresolved(NoName)

\* the program the expressions are typed in: FB_A with the field f : BOOL and
\* the property Value : INT, FB_B with the field b_Own : INT and the methods
\* Run : BOOL and Stop, the structure ST_P with the field p : INT, the
\* function F_Max : INT and the globals
ArrayIntType ==
    Name(<<"A", "R", "R", "A", "Y", " ", "[", "0", ".", ".", "3", "]", " ", "O", "F", " ",
           "I", "N", "T">>)
MatrixIntType ==
    Name(<<"A", "R", "R", "A", "Y", " ", "[", "0", ".", ".", "1", ",", " ", "0", ".", ".",
           "1", "]", " ", "O", "F", " ", "I", "N", "T">>)
ST_P == <<"S", "T", "_", "P">>
F_Max == <<"F", "_", "M", "a", "x">>
Field_p == <<"p">>
Value == <<"V", "a", "l", "u", "e">>
g_Arr == <<"g", "_", "A", "r", "r">>
g_Mat == <<"g", "_", "M", "a", "t">>
g_Inst == <<"g", "_", "I", "n", "s", "t">>
g_Lower == <<"g", "_", "L", "o", "w", "e", "r">>
g_St == <<"g", "_", "S", "t">>
UnknownName == <<"z">>
ExprCode(extends) ==
    [function_blocks |->
        << Item(FB_A, FunctionBlockSummary(FB_A, NoExtends, <<Item(Field_f, BoolType)>>,
                          <<>>, <<PropertySummary(Value, IntType)>>)),
           Item(FB_B, FunctionBlockSummary(FB_B, extends, <<Item(Field_b, IntType)>>,
                          << MethodSummary(Run, BoolType, <<Item(x_Counter, IntType)>>),
                             MethodSummary(Stop, NoName, <<>>) >>,
                          <<>>)) >>,
     data_types |->
        << Item(ST_P, FunctionBlockSummary(ST_P, NoExtends, <<Item(Field_p, IntType)>>,
                          <<>>, <<>>)) >>,
     functions |-> <<Item(F_Max, IntType)>>,
     globals |-> << Item(Global_g, IntType), Item(g_Arr, ArrayIntType),
                    Item(g_Mat, MatrixIntType), Item(g_Inst, Name(FB_A)),
                    Item(g_Lower, Name(lower(FB_A))), Item(g_St, Name(ST_P)) >>]
ExprCodes == { ExprCode(extends) : extends \in { NoExtends, Extends(<<FB_A>>) } }

ElementLists ==
    { <<SubscriptList(1)>>, <<SubscriptList(2)>>, <<FieldSelector(Field_f)>>,
      <<FieldSelector(<<"F">>)>>, <<FieldSelector(Value)>>,
      <<FieldSelector(<<"V", "A", "L", "U", "E">>)>>, <<FieldSelector(Field_p)>>,
      <<FieldSelector(<<"P">>)>>, <<FieldSelector(Field_f), SubscriptList(1)>> }
ElementNames == { g_Arr, g_Mat, g_Inst, g_Lower, g_St, Global_g, UnknownName }
Expressions ==
    { Integer, TypedInteger(<<"D", "I", "N", "T">>), Boolean, DirectVariable,
      ParenthesizedExpression(DirectVariable),
      UnaryOperation("NOT", Boolean), UnaryOperation("-", SimpleVariable(Global_g)),
      UnaryOperation("-", SimpleVariable(UnknownName)),
      BinaryOperation("=", Integer, Integer),
      BinaryOperation("+", Integer, TypedInteger(<<"D", "I", "N", "T">>)),
      BinaryOperation("+", Integer, SimpleVariable(UnknownName)),
      BinaryOperation("MOD", SimpleVariable(Global_g), Integer),
      BinaryOperation("**", Integer, Integer),
      FunctionCallOf(F_Max), FunctionCallOf(<<"l", "e", "n">>),
      FunctionCallOf(UnknownName), FunctionCallOf(g_Inst) }
    \cup { SimpleVariable(n) : n \in { Global_g, UnknownName, SUPER, THIS, Run, Stop } }
    \cup { MultiElementVariable(n, <<SubscriptList(1)>>) : n \in { g_Arr, g_Mat, Global_g } }

NoExpr == Expr("", "", <<>>, <<>>, <<>>, NoName)
\* no call has been made in the scope
NoTypeCall == [fn |-> "", var |-> <<>>, strict |-> FALSE, elements |-> <<>>, expr |-> NoExpr]

ExprTypeInit ==
    /\ call_args \in { [self |-> Context(code), call |-> NoTypeCall] : code \in ExprCodes }
    /\ call_result = Unresolved
    /\ call_pc = "global"
    /\ PathsIdle
    /\ RegistryIdle
    /\ WalkIdle
    /\ DispatchIdle

\* `with ctx.function_block(fb)` is entered
TypeScopeFunctionBlock ==
    /\ call_pc = "global"
    /\ \E i \in 1..Len(call_args.self.code.function_blocks) :
          call_args' = [call_args EXCEPT
             !.self.current_fb =
                 [is_none |-> FALSE, fb |-> call_args.self.code.function_blocks[i].v],
             !.call = NoTypeCall]
    /\ call_result' = Unresolved
    /\ call_pc' = "function_block"
    /\ UNCHANGED qidle

\* `with ctx.method(method)` is entered
TypeScopeMethod ==
    /\ call_pc = "function_block"
    /\ LET fb == call_args.self.current_fb.fb
       IN  \E m \in { fb.methods[i] : i \in 1..Len(fb.methods) }
                    \cup { fb.properties[i] : i \in 1..Len(fb.properties) } :
              call_args' = [call_args EXCEPT
                 !.self.current_method = [is_none |-> FALSE, m |-> m],
                 !.self.var_stack = Append(@, m.declarations),
                 !.call = NoTypeCall]
    /\ call_result' = Unresolved
    /\ call_pc' = "method"
    /\ UNCHANGED qidle

\* ctx.get_multi_element_type(name, elements) is called
CallGetMultiElementType ==
    /\ call_args.call = NoTypeCall
    /\ \E name \in ElementNames, elements \in ElementLists :
          /\ call_args' = [call_args EXCEPT
                !.call = [NoTypeCall EXCEPT !.fn = "get_multi_element_type",
                                            !.var = name, !.elements = elements]]
          /\ call_result' = get_multi_element_type(call_args.self, name, elements)
    /\ UNCHANGED << call_pc, qidle >>

\* ctx.get_expr_type(expr) is called
CallGetExprType ==
    /\ call_args.call = NoTypeCall
    /\ \E expr \in Expressions :
          /\ call_args' = [call_args EXCEPT
                !.call = [NoTypeCall EXCEPT !.fn = "get_expr_type", !.expr = expr]]
          /\ call_result' = get_expr_type(call_args.self, expr)
    /\ UNCHANGED << call_pc, qidle >>

ExprTypeNext ==
    \/ TypeScopeFunctionBlock
    \/ TypeScopeMethod
    \/ CallGetMultiElementType
    \/ CallGetExprType

SpecExprType == ExprTypeInit /\ [][ExprTypeNext]_vars

\* what the program declares: the arrays with the number of their dimensions
\* and the type of their elements, and the members of the types
ArrayDeclarations ==
    { [name |-> g_Arr, dims |-> 1, element |-> IntType],
      [name |-> g_Mat, dims |-> 2, element |-> IntType] }
MemberDeclarations ==
    { [base |-> FB_A, field |-> Field_f, typ |-> BoolType, property |-> FALSE],
      [base |-> FB_A, field |-> Value, typ |-> IntType, property |-> TRUE],
      [base |-> ST_P, field |-> Field_p, typ |-> IntType, property |-> FALSE] }
VariableDeclarations ==
    { [name |-> g_Inst, typ |-> FB_A], [name |-> g_Lower, typ |-> lower(FB_A)],
      [name |-> g_St, typ |-> ST_P] }
MultiElementCall == call_args.call.fn = "get_multi_element_type"
SubscriptsOnly ==
    /\ MultiElementCall
    /\ Len(call_args.call.elements) = 1
    /\ call_args.call.elements[1].k = "SubscriptList"
FieldOnly ==
    /\ MultiElementCall
    /\ Len(call_args.call.elements) = 1
    /\ call_args.call.elements[1].k = "FieldSelector"

\* C26: a variable declared as an array of n dimensions, accessed with
\* exactly n subscripts, resolves to the type of the elements; accessed with
\* fewer than n subscripts it yields no type, with a diagnostic
C26_OneDimensionPerSubscript ==
    \A a \in ArrayDeclarations :
        SubscriptsOnly /\ call_args.call.var = a.name =>
            /\ call_args.call.elements[1].n = a.dims =>
                  call_result.raised = "" /\ call_result.typ = a.element
            /\ call_args.call.elements[1].n < a.dims =>
                  /\ call_result.raised = ""
                  /\ call_result.typ.is_none
                  /\ call_result.warned

\* C26, what the code does: the commas between the brackets are counted, one
\* fewer than the dimensions; n - 1 subscripts resolve to the type of the
\* elements and every other number yields no type, with the diagnostic
C26_CommasAreCounted ==
    \A a \in ArrayDeclarations :
        SubscriptsOnly /\ call_args.call.var = a.name =>
            /\ call_result.raised = ""
            /\ call_args.call.elements[1].n = a.dims - 1 => call_result.typ = a.element
            /\ call_args.call.elements[1].n # a.dims - 1 =>
                  call_result.typ.is_none /\ call_result.warned

\* C27: a selector whose field name, or the name of whose base type, differs
\* only in case from the declared one resolves to the type of that field, for
\* declarations and for properties
C27_FieldSelectorCaseInsensitive ==
    \A m \in MemberDeclarations, v \in VariableDeclarations :
        /\ FieldOnly
        /\ call_args.call.var = v.name
        /\ SameName(v.typ, m.base)
        /\ SameName(call_args.call.elements[1].field, m.field)
        => call_result.raised = "" /\ call_result.typ = m.typ

\* C27, what the code does: the name of the base type and the name of a
\* declared field are looked up as written; only the name of a property is
\* compared without case
C27_OnlyPropertiesCaseInsensitive ==
    \A m \in MemberDeclarations, v \in VariableDeclarations :
        /\ FieldOnly
        /\ call_args.call.var = v.name
        /\ SameName(v.typ, m.base)
        /\ SameName(call_args.call.elements[1].field, m.field)
        => /\ call_result.raised = ""
           /\ call_result.typ =
                 IF v.typ = m.base /\ (m.property \/ call_args.call.elements[1].field = m.field)
                 THEN m.typ ELSE NoName

\* the calls that cannot resolve: an unknown identifier, SUPER where the
\* active function block extends nothing or extends no function block that
\* has the active method, an
\* expression of an unsupported shape or operator, a subscript on a type
\* that is no array, and fewer subscripts than dimensions
ExprTypeCall == call_args.call.fn = "get_expr_type"
UnknownIdentifier ==
    \/ ExprTypeCall /\ call_args.call.expr = SimpleVariable(UnknownName)
    \/ MultiElementCall /\ call_args.call.var = UnknownName
HasMember(self, fb_name, member) ==
    \E i \in 1..Len(self.code.function_blocks) :
        LET fb == self.code.function_blocks[i].v
        IN  /\ SameName(self.code.function_blocks[i].k, fb_name)
            /\ \/ \E j \in 1..Len(fb.methods) : SameName(fb.methods[j].name, member)
               \/ \E j \in 1..Len(fb.properties) : SameName(fb.properties[j].name, member)
SuperWithoutTarget ==
    /\ ExprTypeCall
    /\ call_args.call.expr = SimpleVariable(SUPER)
    /\ ~call_args.self.current_fb.is_none
    /\ LET fb == call_args.self.current_fb.fb
           method == call_args.self.current_method
       IN  \/ fb.extends.is_none
           \/ /\ ~method.is_none
              /\ \A i \in 1..Len(fb.extends.names) :
                    ~HasMember(call_args.self, fb.extends.names[i], method.m.name)
UnsupportedExpression ==
    /\ ExprTypeCall
    /\ \/ call_args.call.expr.k = "DirectVariable"
       \/ call_args.call.expr.k = "UnaryOperation"
             /\ call_args.call.expr.op \notin {"NOT", "-", "+"}
       \/ call_args.call.expr.k = "BinaryOperation"
             /\ call_args.call.expr.op \notin ComparisonOperators \cup {"MOD", "+", "-", "*", "/"}
SubscriptOnNonArray == SubscriptsOnly /\ call_args.call.var = Global_g
PartialAccess ==
    \E a \in ArrayDeclarations :
        SubscriptsOnly /\ call_args.call.var = a.name /\ call_args.call.elements[1].n < a.dims
ResolutionFails ==
    \/ UnknownIdentifier
    \/ SuperWithoutTarget
    \/ UnsupportedExpression
    \/ SubscriptOnNonArray
    \/ PartialAccess

\* C28: a resolution that fails is never fatal: the call returns no type
\* instead of raising, and leaves the scope and the program as they were
C28_FailureIsNeverFatal ==
    /\ [](ResolutionFails => call_result.raised = "" /\ call_result.typ.is_none)
    /\ [][call_args'.call # NoTypeCall => call_args'.self = call_args.self]_vars

\* C28, the part the code keeps: an unknown identifier yields no type without
\* raising, and no call changes the scope or the program
C28_UnknownIdentifierIsNone ==
    /\ [](UnknownIdentifier => call_result.raised = "" /\ call_result.typ.is_none)
    /\ [][call_args'.call # NoTypeCall => call_args'.self = call_args.self]_vars

=============================================================================
